---- MODULE Spec2Model ----
(***************************************************************************)
(* P25 Key Fill Device core: the operation dispatcher (KFDProtocol), the   *)
(* KMM framer and the Three-Wire Interface line driver (TWI_HAL).          *)
(*                                                                         *)
(* The program is single-threaded.  A dispatcher operation is an           *)
(* activation record on `stack'; the only place where user code runs       *)
(* inside an operation is the keyloadMultiple progress callback, where it  *)
(* may call abort() or call the dispatcher again.  The peer on the DATA    *)
(* wire is the environment: at every receive it answers with a byte        *)
(* sequence chosen from a bounded set, or stays silent (timeout).          *)
(***************************************************************************)
EXTENDS Integers, Sequences, FiniteSets, TLC

(***************************************************************************)
(* Bounds of the model                                                     *)
(***************************************************************************)
\* longest key list handed to keyloadMultiple
MaxKeys == 2

\* user code calls the dispatcher from inside a progress callback only while
\* fewer than MaxReentryKey keys have been loaded
MaxReentryKey == 1

\* milliseconds in one tick of the clock the waits are measured with
TickMs == 10000

\* seconds of uptime the login sessions are followed for
MaxUptime == 70

\* longest container list
MaxContainers == 3

(***************************************************************************)
(* Protocol constants (include/p25_defs.h)                                 *)
(***************************************************************************)
TWI_READY_REQ      == 192   \* 0xC0
TWI_READY_MODE_MR  == 208   \* 0xD0
TWI_READY_MODE_KVL == 209   \* 0xD1
TWI_TRANSFER_DONE  == 193   \* 0xC1
TWI_KMM            == 194   \* 0xC2
TWI_DISCONNECT     == 146   \* 0x92
TWI_DISCONNECT_ACK == 144   \* 0x90

MSG_INVENTORY_CMD  == 0
MSG_MODIFY_KEY_CMD == 4
MSG_REKEY_ACK      == 7
MSG_NEGATIVE_ACK   == 8
MSG_ZEROIZE_CMD    == 10
INV_LIST_ACTIVE_KSET_IDS == 2

STATUS_COMMAND_PERFORMED == 0
STATUS_INVALID_MN        == 10
STATUS_INTERNAL_ERROR    == 255

\* marker written to a transmit log for the 100 ms Busy / 5 ms Idle key
\* signature (not a byte value)
KEY_SIGNATURE == 256

(***************************************************************************)
(* Bit operations on naturals                                              *)
(***************************************************************************)
RECURSIVE BitXor(_, _)
BitXor(a, b) ==
   IF a = 0 THEN b
   ELSE IF b = 0 THEN a
   ELSE (((a % 2) + (b % 2)) % 2) + 2 * BitXor(a \div 2, b \div 2)

RECURSIVE BitAnd(_, _)
BitAnd(a, b) ==
   IF a = 0 \/ b = 0 THEN 0
   ELSE ((a % 2) * (b % 2)) + 2 * BitAnd(a \div 2, b \div 2)

Last(s) == s[Len(s)]

Byte == 0..255

crc16Table ==
   <<
      0, 4489, 8978, 12955, 17956, 22445, 25910, 29887,
      35912, 40385, 44890, 48851, 51820, 56293, 59774, 63735,
      4225, 264, 13203, 8730, 22181, 18220, 30135, 25662,
      40137, 36160, 49115, 44626, 56045, 52068, 63999, 59510,
      8450, 12427, 528, 5017, 26406, 30383, 17460, 21949,
      44362, 48323, 36440, 40913, 60270, 64231, 51324, 55797,
      12675, 8202, 4753, 792, 30631, 26158, 21685, 17724,
      48587, 44098, 40665, 36688, 64495, 60006, 55549, 51572,
      16900, 21389, 24854, 28831, 1056, 5545, 10034, 14011,
      52812, 57285, 60766, 64727, 34920, 39393, 43898, 47859,
      21125, 17164, 29079, 24606, 5281, 1320, 14259, 9786,
      57037, 53060, 64991, 60502, 39145, 35168, 48123, 43634,
      25350, 29327, 16404, 20893, 9506, 13483, 1584, 6073,
      61262, 65223, 52316, 56789, 43370, 47331, 35448, 39921,
      29575, 25102, 20629, 16668, 13731, 9258, 5809, 1848,
      65487, 60998, 56541, 52564, 47595, 43106, 39673, 35696,
      33800, 38273, 42778, 46739, 49708, 54181, 57662, 61623,
      2112, 6601, 11090, 15067, 20068, 24557, 28022, 31999,
      38025, 34048, 47003, 42514, 53933, 49956, 61887, 57398,
      6337, 2376, 15315, 10842, 24293, 20332, 32247, 27774,
      42250, 46211, 34328, 38801, 58158, 62119, 49212, 53685,
      10562, 14539, 2640, 7129, 28518, 32495, 19572, 24061,
      46475, 41986, 38553, 34576, 62383, 57894, 53437, 49460,
      14787, 10314, 6865, 2904, 32743, 28270, 23797, 19836,
      50700, 55173, 58654, 62615, 32808, 37281, 41786, 45747,
      19012, 23501, 26966, 30943, 3168, 7657, 12146, 16123,
      54925, 50948, 62879, 58390, 37033, 33056, 46011, 41522,
      23237, 19276, 31191, 26718, 7393, 3432, 16371, 11898,
      59150, 63111, 50204, 54677, 41258, 45219, 33336, 37809,
      27462, 31439, 18516, 23005, 11618, 15595, 3696, 8185,
      63375, 58886, 54429, 50452, 45483, 40994, 37561, 33584,
      31687, 27214, 22741, 18780, 15843, 11370, 7921, 3960
   >>

reverseBitsTable ==
   <<
      0, 128, 64, 192, 32, 160, 96, 224, 16, 144, 80, 208, 48, 176, 112, 240,
      8, 136, 72, 200, 40, 168, 104, 232, 24, 152, 88, 216, 56, 184, 120, 248,
      4, 132, 68, 196, 36, 164, 100, 228, 20, 148, 84, 212, 52, 180, 116, 244,
      12, 140, 76, 204, 44, 172, 108, 236, 28, 156, 92, 220, 60, 188, 124, 252,
      2, 130, 66, 194, 34, 162, 98, 226, 18, 146, 82, 210, 50, 178, 114, 242,
      10, 138, 74, 202, 42, 170, 106, 234, 26, 154, 90, 218, 58, 186, 122, 250,
      6, 134, 70, 198, 38, 166, 102, 230, 22, 150, 86, 214, 54, 182, 118, 246,
      14, 142, 78, 206, 46, 174, 110, 238, 30, 158, 94, 222, 62, 190, 126, 254,
      1, 129, 65, 193, 33, 161, 97, 225, 17, 145, 81, 209, 49, 177, 113, 241,
      9, 137, 73, 201, 41, 169, 105, 233, 25, 153, 89, 217, 57, 185, 121, 249,
      5, 133, 69, 197, 37, 165, 101, 229, 21, 149, 85, 213, 53, 181, 117, 245,
      13, 141, 77, 205, 45, 173, 109, 237, 29, 157, 93, 221, 61, 189, 125, 253,
      3, 131, 67, 195, 35, 163, 99, 227, 19, 147, 83, 211, 51, 179, 115, 243,
      11, 139, 75, 203, 43, 171, 107, 235, 27, 155, 91, 219, 59, 187, 123, 251,
      7, 135, 71, 199, 39, 167, 103, 231, 23, 151, 87, 215, 55, 183, 119, 247,
      15, 143, 79, 207, 47, 175, 111, 239, 31, 159, 95, 223, 63, 191, 127, 255
   >>

(***************************************************************************)
(* CRC-16 of TIA-102.AACD-A Annex A without the final complement           *)
(***************************************************************************)
\* one iteration of the loop of calculateCrc16
Crc16Step(crc, byte) ==
   BitXor(crc16Table[BitXor(byte, crc % 256) + 1], crc \div 256)

\* the loop of calculateCrc16 over data[lo..hi], with the running value crc;
\* the bytes are folded in index order, the range being halved so that a
\* frame of several hundred bytes is evaluated at logarithmic depth
RECURSIVE Crc16Loop(_, _, _, _)
Crc16Loop(crc, data, lo, hi) ==
   IF lo > hi \/ crc < 0 THEN crc
   ELSE IF lo = hi THEN Crc16Step(crc, data[lo])
   ELSE Crc16Loop(Crc16Loop(crc, data, lo, (lo + hi) \div 2),
                  data, ((lo + hi) \div 2) + 1, hi)

\* variant: the TIA form of the CRC, with the final complement
calculateCrc16_complemented(data) ==
   65535 - Crc16Loop(65535, data, 1, Len(data))

calculateCrc16(data) == Crc16Loop(65535, data, 1, Len(data))

\* TWI_HAL::reverseBits
reverseBits(byte) == reverseBitsTable[byte + 1]

\* TWI_HAL::isEvenParity
RECURSIVE PopCount(_)
PopCount(n) == IF n = 0 THEN 0 ELSE (n % 2) + PopCount(n \div 2)

isEvenParity(byte) == PopCount(byte) % 2 = 0

(***************************************************************************)
(* Key items and validation (include/p25_defs.h, P25 namespace)            *)
(***************************************************************************)
getKeyLength(algo) ==
   CASE algo = 129 -> 8      \* ALGO_DES_OFB
     [] algo = 130 -> 16     \* ALGO_2_KEY_3DES
     [] algo = 131 -> 24     \* ALGO_3_KEY_3DES
     [] algo = 133 -> 16     \* ALGO_AES_128
     [] algo = 132 -> 32     \* ALGO_AES_256
     [] algo = 134 -> 32     \* ALGO_AES_CBC
     [] algo = 159 -> 13     \* ALGO_ARC4
     [] algo = 170 -> 5      \* ALGO_ADP
     [] OTHER -> 0

validateKey(key, algo) ==
   LET expected == getKeyLength(algo)
   IN  expected = 0 \/ Len(key) = expected

\* P25::KeyItem
KeyItem(keysetId, sln, keyId, algorithmId, key, erase) ==
   [keysetId |-> keysetId, sln |-> sln, keyId |-> keyId,
    algorithmId |-> algorithmId, key |-> key, erase |-> erase]

(***************************************************************************)
(* KMM framer                                                              *)
(***************************************************************************)
\* variant: a ModifyKey body without the number-of-keys byte
buildModifyKeyCommand_noKeyCount(key) ==
   << 0, 0, 128, 0, 0,
      key.keysetId % 256,
      key.algorithmId,
      Len(key.key) % 256,
      IF key.erase THEN 32 ELSE 0,
      (key.sln \div 256) % 256, key.sln % 256,
      (key.keyId \div 256) % 256, key.keyId % 256 >> \o key.key

\* KFDProtocol::buildModifyKeyCommand(const KeyItem&)
buildModifyKeyCommand(key) ==
   << 0, 0, 128, 0, 0,
      key.keysetId % 256,
      key.algorithmId,
      Len(key.key) % 256,
      1,
      IF key.erase THEN 32 ELSE 0,
      (key.sln \div 256) % 256, key.sln % 256,
      (key.keyId \div 256) % 256, key.keyId % 256 >> \o key.key

\* KFDProtocol::buildZeroizeCommand
buildZeroizeCommand == << MSG_ZEROIZE_CMD >>

\* the frame of buildKmmFrame put together from its parts: messageLength is
\* the value written into the inner message-length field, length the value
\* written into the outer length field, crcBytes the two trailer bytes
KmmFrameOf(kmmBody, messageId, responseKind, messageLength, length, sourceRsi, crcBytes) ==
   << TWI_KMM, (length \div 256) % 256, length % 256, 0, 255, 255, 255,
      messageId, (messageLength \div 256) % 256, messageLength % 256,
      responseKind, 255, 255, 255 >> \o sourceRsi \o kmmBody \o crcBytes

\* the bytes the CRC of a frame with this body is computed over
KmmCrcInput(kmmBody, messageId, responseKind) ==
   << 0, 255, 255, 255, messageId,
      ((7 + Len(kmmBody)) \div 256) % 256, (7 + Len(kmmBody)) % 256,
      responseKind, 255, 255, 255, 255, 255, 255 >> \o kmmBody

\* variant: the outer length field does not count the two CRC bytes
buildKmmFrame3_lengthWithoutCrc(kmmBody, messageId, responseKind) ==
   LET crc == calculateCrc16(KmmCrcInput(kmmBody, messageId, responseKind))
   IN  KmmFrameOf(kmmBody, messageId, responseKind, 7 + Len(kmmBody),
                  14 + Len(kmmBody), << 255, 255, 255 >>,
                  << crc % 256, (crc \div 256) % 256 >>)

\* variant: the CRC is appended high byte first
buildKmmFrame3_crcHighFirst(kmmBody, messageId, responseKind) ==
   LET crc == calculateCrc16(KmmCrcInput(kmmBody, messageId, responseKind))
   IN  KmmFrameOf(kmmBody, messageId, responseKind, 7 + Len(kmmBody),
                  16 + Len(kmmBody), << 255, 255, 255 >>,
                  << (crc \div 256) % 256, crc % 256 >>)

\* variant: the inner message-length field holds the body length alone
buildKmmFrame3_messageLengthOfBody(kmmBody, messageId, responseKind) ==
   LET twiBody == << 0, 255, 255, 255, messageId,
                     (Len(kmmBody) \div 256) % 256, Len(kmmBody) % 256,
                     responseKind, 255, 255, 255, 255, 255, 255 >> \o kmmBody
       crc     == calculateCrc16(twiBody)
   IN  KmmFrameOf(kmmBody, messageId, responseKind, Len(kmmBody),
                  16 + Len(kmmBody), << 255, 255, 255 >>,
                  << crc % 256, (crc \div 256) % 256 >>)

\* variant: an inner KMM without the source RSI
buildKmmFrame3_noSourceRsi(kmmBody, messageId, responseKind) ==
   LET twiBody == << 0, 255, 255, 255, messageId,
                     ((7 + Len(kmmBody)) \div 256) % 256,
                     (7 + Len(kmmBody)) % 256,
                     responseKind, 255, 255, 255 >> \o kmmBody
       crc     == calculateCrc16(twiBody)
   IN  KmmFrameOf(kmmBody, messageId, responseKind, 7 + Len(kmmBody),
                  13 + Len(kmmBody), << >>,
                  << crc % 256, (crc \div 256) % 256 >>)

\* KFDProtocol::buildKmmFrame(body, messageId, responseKind)
buildKmmFrame3(kmmBody, messageId, responseKind) ==
   LET messageLength == 7 + Len(kmmBody)
       kmmFrame == << messageId,
                      (messageLength \div 256) % 256, messageLength % 256,
                      responseKind, 255, 255, 255, 255, 255, 255 >> \o kmmBody
       twiBody  == << 0, 255, 255, 255 >> \o kmmFrame
       crc      == calculateCrc16(twiBody)
       length   == Len(twiBody) + 2
   IN  << TWI_KMM, (length \div 256) % 256, length % 256 >>
          \o twiBody \o << crc % 256, (crc \div 256) % 256 >>

\* KFDProtocol::buildKmmFrame(body): the ModifyKey convenience wrapper
buildKmmFrame(kmmBody) == buildKmmFrame3(kmmBody, MSG_MODIFY_KEY_CMD, 192)

(***************************************************************************)
(* Line driver (TWI_HAL).  The DATA pin is "output_low" while the driver   *)
(* pulls it Busy and "input_pullup" when released; the SENSE pin is        *)
(* driven "low" (connected) or "high" (disconnected).  Before init the     *)
(* pins are "unconfigured".                                                *)
(***************************************************************************)
kfdTxBusy == "output_low"

\* variant: a push-pull driver that drives the line high for Idle
kfdTxIdle_drivenHigh == "output_high"

kfdTxIdle == "input_pullup"
senTxConn == "low"
senTxDisc == "high"

\* one segment of a waveform: the pin setting, how long it is held (in bit
\* periods) and whether interrupts are disabled meanwhile
Seg(pin, bits, irqOff) == [pin |-> pin, bits |-> bits, irqOff |-> irqOff]

\* variant: a shift register without the start bit
TxFrame_noStartBit(byte) ==
   reverseBits(byte) + (IF ~isEvenParity(byte) THEN 256 ELSE 0)

\* variant: a shift register loaded with the byte as it is, not reversed
TxFrame_notReversed(byte) ==
   (byte + (IF ~isEvenParity(byte) THEN 256 ELSE 0)) * 2

\* the 10-bit shift register of sendByte: start bit, reversed data, parity
TxFrame(byte) ==
   (reverseBits(byte) + (IF ~isEvenParity(byte) THEN 256 ELSE 0)) * 2

\* the level put on the wire for bit i (0-based) of the shift register
TxBitLevel(frame, i) ==
   IF (frame \div (2 ^ i)) % 2 = 1 THEN kfdTxIdle ELSE kfdTxBusy

\* variant: busy stop bits that are not followed by a release of the line
TxStopBits_heldBusy(useBusyStopBits) ==
   IF useBusyStopBits
   THEN << Seg(kfdTxBusy, 4, TRUE), Seg(kfdTxBusy, 2, FALSE) >>
   ELSE << Seg(kfdTxIdle, 4, TRUE), Seg(kfdTxIdle, 2, FALSE) >>

\* the stop bits of sendByte / sendBytesFast followed by the inter-byte gap
TxStopBits(useBusyStopBits) ==
   IF useBusyStopBits
   THEN << Seg(kfdTxBusy, 4, TRUE), Seg(kfdTxIdle, 2, FALSE) >>
   ELSE << Seg(kfdTxIdle, 4, TRUE), Seg(kfdTxIdle, 2, FALSE) >>

\* TWI_HAL::sendByte: the waveform of one byte frame
sendByteWave(byte, useBusyStopBits) ==
   [i \in 1..10 |-> Seg(TxBitLevel(TxFrame(byte), i - 1), 1, TRUE)]
      \o TxStopBits(useBusyStopBits)

\* TWI_HAL::Config::txKilobaud, the default transmit speed
TxKilobaud == 4

\* TWI_HAL::sendBytesFast: the byte frames one after the other, then the
\* line released for 1000 us, which is txKilobaud bit periods of 1000 /
\* txKilobaud us
RECURSIVE ByteFramesWave(_, _)
ByteFramesWave(data, useBusyStopBits) ==
   IF data = << >> THEN << >>
   ELSE sendByteWave(Head(data), useBusyStopBits)
           \o ByteFramesWave(Tail(data), useBusyStopBits)

sendBytesFastWave(data, useBusyStopBits) ==
   IF data = << >> THEN << >>
   ELSE ByteFramesWave(data, useBusyStopBits)
           \o << Seg(kfdTxIdle, TxKilobaud, FALSE) >>

\* the key signature: 100 ms Busy, 5 ms Idle (durations in milliseconds)
keySignatureWave == << Seg(kfdTxBusy, 100, TRUE), Seg(kfdTxIdle, 5, TRUE) >>

\* DATA pin after TWI_HAL::sendByte
sendBytePin(init, pin, byte, useBusyStopBits) ==
   IF ~init THEN pin ELSE Last(sendByteWave(byte, useBusyStopBits)).pin

\* DATA pin after TWI_HAL::sendBytesFast
sendBytesFastPin(init, pin, data, useBusyStopBits) ==
   IF ~init \/ data = << >> THEN pin ELSE kfdTxIdle

\* DATA pin after TWI_HAL::sendKeySignature
sendKeySignaturePin(init, pin) ==
   IF ~init THEN pin ELSE Last(keySignatureWave).pin

\* DATA pin after TWI_HAL::sendKeySignatureAndReadyReq
sendKeySignatureAndReadyReqPin(init, pin, useBusyStopBits) ==
   IF ~init THEN pin ELSE kfdTxIdle

\* DATA pin after TWI_HAL::receiveByte (the line is released before polling)
receiveBytePin(init, pin) ==
   IF ~init THEN pin ELSE kfdTxIdle

\* what reaches the wire when the HAL is asked to send `bytes'
Transmitted(init, bytes) == IF init THEN bytes ELSE << >>

\* variant: teardown that disconnects SENSE
disableInterface_disconnect(sense) == senTxDisc

\* TWI_HAL::disableInterface: SENSE stays as it is
disableInterface(sense) == sense

\* digitalRead of the SENSE / DATA pin under the hardware faults `f'
ReadSenseLow(sense, f) ==
   IF "sense_stuck_low" \in f THEN TRUE
   ELSE IF "sense_stuck_high" \in f THEN FALSE
   ELSE sense = senTxConn

ReadDataLow(data, f) ==
   IF "data_stuck_low" \in f THEN TRUE
   ELSE IF "data_stuck_high" \in f THEN FALSE
   ELSE data = kfdTxBusy

HwFaults == {"data_stuck_low", "data_stuck_high",
             "sense_stuck_low", "sense_stuck_high"}

\* variant: the DATA-driven check is made before the SENSE-released check
selfTest_dataChecksFirst(init, data, sense, f) ==
   IF ~init THEN [code |-> 255, data |-> data, sense |-> sense]
   ELSE LET senseWasActive == ReadSenseLow(sense, f)
        IN  IF ReadDataLow(kfdTxIdle, f)
            THEN [code |-> 1, data |-> kfdTxIdle, sense |-> senTxDisc]
            ELSE IF ~ReadDataLow(kfdTxBusy, f)
            THEN [code |-> 3, data |-> kfdTxIdle, sense |-> senTxDisc]
            ELSE IF ReadSenseLow(senTxDisc, f)
            THEN [code |-> 2, data |-> kfdTxIdle, sense |-> senTxDisc]
            ELSE IF ~ReadSenseLow(senTxConn, f)
            THEN [code |-> 4, data |-> kfdTxIdle, sense |-> senTxDisc]
            ELSE [code |-> 0, data |-> kfdTxIdle,
                  sense |-> IF senseWasActive THEN senTxConn ELSE senTxDisc]

\* TWI_HAL::selfTest: result code and the pins it leaves behind
selfTest(init, data, sense, f) ==
   IF ~init THEN [code |-> 255, data |-> data, sense |-> sense]
   ELSE LET senseWasActive == ReadSenseLow(sense, f)
        IN  IF ReadDataLow(kfdTxIdle, f)
            THEN [code |-> 1, data |-> kfdTxIdle, sense |-> senTxDisc]
            ELSE IF ReadSenseLow(senTxDisc, f)
            THEN [code |-> 2, data |-> kfdTxIdle, sense |-> senTxDisc]
            ELSE IF ~ReadDataLow(kfdTxBusy, f)
            THEN [code |-> 3, data |-> kfdTxIdle, sense |-> senTxDisc]
            ELSE IF ~ReadSenseLow(senTxConn, f)
            THEN [code |-> 4, data |-> kfdTxIdle, sense |-> senTxDisc]
            ELSE [code |-> 0, data |-> kfdTxIdle,
                  sense |-> IF senseWasActive THEN senTxConn ELSE senTxDisc]

(***************************************************************************)
(* Receive side of the framer                                              *)
(***************************************************************************)
Min(a, b) == IF a < b THEN a ELSE b

Take(q, n) == SubSeq(q, 1, Min(n, Len(q)))

\* receiveByte calls made by a loop that reads at most `limit' bytes and
\* stops at the first timeout, when the peer still sends `avail' bytes
DrainCalls(avail, limit) == IF avail >= limit THEN limit ELSE avail + 1

\* _debug of KFDProtocol (constructor default, never changed by the firmware)
KfdDebug == TRUE

RecvFail(calls) == [ok |-> FALSE, kmm |-> << >>, rx |-> calls]

\* payload delivered for an accepted 0xC2 frame with declared length len
receiveKmmPayload(body, len) ==
   IF len > 6 THEN SubSeq(body, 5, len - 2) ELSE body

\* variant: a length check without the lower bound
lengthInRange_noLowerBound(len) == len <= 512

\* KFDProtocol::receiveKmm: the declared length passes the range check
lengthInRange(len) == ~(len < 6 \/ len > 512)

\* KFDProtocol::receiveKmm when the peer sends the bytes q and then nothing:
\* ok, the kmm handed to the caller and the number of receiveByte calls
receiveKmm(q) ==
   IF q = << >> THEN RecvFail(1)
   ELSE LET opcode == Head(q)
            rest   == Tail(q)
        IN  IF opcode = 195
            THEN [ok |-> TRUE, kmm |-> << opcode >> \o Take(rest, 100),
                  rx |-> 1 + DrainCalls(Len(rest), 100)]
            ELSE IF opcode # TWI_KMM
            THEN RecvFail(1 + (IF KfdDebug THEN DrainCalls(Len(rest), 10)
                                           ELSE 0))
            ELSE IF Len(rest) < 2 THEN RecvFail(2 + Len(rest))
            ELSE LET len  == rest[1] * 256 + rest[2]
                     body == SubSeq(rest, 3, Len(rest))
                 IN  IF ~lengthInRange(len)
                     THEN RecvFail(3 + DrainCalls(Len(body), 20))
                     ELSE IF Len(body) < len
                     THEN RecvFail(3 + Len(body) + 1)
                     ELSE [ok |-> TRUE,
                           kmm |-> receiveKmmPayload(Take(body, len), len),
                           rx |-> 3 + len]

\* KFDProtocol::Result(ok, msg)
Result(ok, msg) ==
   [ok |-> ok, msg |-> msg,
    status |-> IF ok THEN STATUS_COMMAND_PERFORMED ELSE STATUS_INTERNAL_ERROR]

\* variant: the status is taken one byte too early
nakStatus_offsetOne(response) ==
   IF Len(response) > 2 THEN response[2] ELSE STATUS_INVALID_MN

\* status reported for a negative acknowledgment
nakStatus(response) ==
   IF Len(response) > 2 THEN response[3] ELSE STATUS_INVALID_MN

\* KFDProtocol::keyload: classification of the received response
keyloadClassify(response) ==
   IF response = << >> THEN Result(FALSE, "Empty response")
   ELSE IF response[1] = MSG_REKEY_ACK
   THEN Result(TRUE, "Key loaded successfully")
   ELSE IF response[1] = MSG_NEGATIVE_ACK
   THEN [ok |-> FALSE, msg |-> "NAK received", status |-> nakStatus(response)]
   ELSE Result(FALSE, "Unexpected response")

\* KFDProtocol::keyloadMultiple: does the response to key i let the loop go on
keyAccepted(response) ==
   ~(response = << >> \/ response[1] # MSG_REKEY_ACK)

\* variant: teardown that sends DISCONNECT whatever the peer answered
endSessionTx_alwaysDisconnect(q) == << TWI_TRANSFER_DONE, TWI_DISCONNECT >>

\* variant: teardown that sends DISCONNECT before TRANSFER_DONE
endSessionTx_disconnectFirst(q) ==
   (IF q # << >> /\ Head(q) = TWI_TRANSFER_DONE
    THEN << TWI_DISCONNECT >> ELSE << >>)
      \o << TWI_TRANSFER_DONE >>

\* variant: teardown that omits TRANSFER_DONE
endSessionTx_noTransferDone(q) ==
   IF q # << >> /\ Head(q) = TWI_TRANSFER_DONE
   THEN << TWI_DISCONNECT >> ELSE << >>

\* KFDProtocol::endSession: bytes sent when the peer answers with q
endSessionTx(q) ==
   << TWI_TRANSFER_DONE >>
      \o (IF q # << >> /\ Head(q) = TWI_TRANSFER_DONE
          THEN << TWI_DISCONNECT >> ELSE << >>)

\* KFDProtocol::endSession: receiveByte calls made when the peer answers q
endSessionRx(q) ==
   IF q # << >> /\ Head(q) = TWI_TRANSFER_DONE THEN 2 ELSE 1

\* variant: one attempt more
beginSessionAttempts_four == 3 + 1

\* KFDProtocol::beginSession: number of handshake attempts
beginSessionAttempts == 3

\* KFDProtocol::beginSession: is the ready response accepted
readyAccepted(response) ==
   response = TWI_READY_MODE_MR \/ response = TWI_READY_MODE_KVL

(***************************************************************************)
(* Inputs                                                                  *)
(***************************************************************************)
\* 32 bytes 0x11 .. 0x30
TestKey32 == [i \in 1..32 |-> 16 + i]

\* an ADP key of 5 bytes and one of 4 bytes
AdpKey5 == KeyItem(1, 5, 7, 170, << 1, 2, 3, 4, 5 >>, FALSE)

AdpKey4 == KeyItem(2, 61441, 9, 170, << 1, 2, 3, 4 >>, FALSE)

\* the AES-256 key of testDESKey: keyset 1, SLN 202, key id 202
AesKey202 == KeyItem(1, 202, 202, 132, TestKey32, FALSE)

KeyItems ==
   { AesKey202,                                           \* AES-256, 32 bytes
     AdpKey5,
     AdpKey4,
     KeyItem(1, 6, 8, 153, << 9, 9, 9 >>, FALSE),         \* unlisted algorithm
     KeyItem(1, 7, 1, 129, [i \in 1..8 |-> 0], TRUE) }   \* DES, erase flag set

\* the list of n keys that alternates between two keys
AlternatingKeys(first, second, n) ==
   [j \in 1..n |-> IF j % 2 = 1 THEN first ELSE second]

\* the lists handed to keyloadMultiple
KeyLists ==
   { AlternatingKeys(p[1], p[2], n) :
        n \in 0..MaxKeys,
        p \in { << AdpKey5, AdpKey4 >>, << AdpKey4, AdpKey5 >> } }

\* arguments of eraseKey(keysetId, sln)
EraseArgs == { << 1, 202 >>, << 258, 61441 >> }

\* variant: eraseKey does not set the erase flag
eraseKeyItem_notErase(keysetId, sln) ==
   KeyItem(keysetId, sln, 0, 132, << >>, FALSE)

\* KFDProtocol::eraseKey: the KeyItem handed to keyload
eraseKeyItem(keysetId, sln) == KeyItem(keysetId, sln, 0, 132, << >>, TRUE)

\* a well-formed 0xC2 frame as a peer builds it around an inner KMM
PeerFrame(inner) ==
   LET twiBody == << 0, 255, 255, 255 >> \o inner
       crc     == calculateCrc16(twiBody)
       length  == Len(twiBody) + 2
   IN  << TWI_KMM, length \div 256, length % 256 >>
          \o twiBody \o << crc % 256, crc \div 256 >>

\* a 0xC2 frame around an inner KMM whose CRC trailer is off by one
BadCrcFrame(inner) ==
   LET twiBody == << 0, 255, 255, 255 >> \o inner
       crc     == (calculateCrc16(twiBody) + 1) % 65536
       length  == Len(twiBody) + 2
   IN  << TWI_KMM, length \div 256, length % 256 >>
          \o twiBody \o << crc % 256, crc \div 256 >>

PeerInners ==
   { << >>, << 7, 0, 4 >>, << 8 >>, << 8, 0, 6 >>, << 15, 0, 7 >> }

\* what the peer may send in reply to a KMM frame (<< >> is silence)
KmmReplies ==
   { << >> }
      \cup { PeerFrame(inner) : inner \in PeerInners }
      \cup { Take(PeerFrame(<< 7, 0, 4 >>), 8),         \* cut off mid-frame
             << 194, 0 >>,                               \* cut off in length
             << 194, 0, 5, 7, 7, 7, 7, 7 >>,             \* length too small
             << 194, 2, 1, 7, 0, 4 >>,                   \* length 513
             BadCrcFrame(<< 7, 0, 4 >>),                 \* rekey-ack, bad CRC
             << 194, 0, 6, 7, 255, 255, 255, 0, 0 >>,    \* length 6, no KMM
             << 195, 1, 128, 0, 1, 132, 131, 255 >>,     \* opcode 0xC3
             << 7, 0, 4 >> }                             \* no opcode at all

\* what the peer may answer to READY_REQ (<< >> is silence)
ReadyReplies == { << >>, << 208 >>, << 209 >>, << 85 >> }

\* what the peer may answer during teardown
EndReplies == { << >>, << 193 >>, << 193, 144 >>, << 85 >> }

Ops == {"keyload", "keyloadMultiple", "eraseKey", "eraseAllKeys",
        "testInventory"}

(***************************************************************************)
(* State                                                                   *)
(***************************************************************************)
VARIABLES
   kfdInit,        \* KFDProtocol::_initialized
   halInit,        \* TWI_HAL::_initialized
   opInProgress,   \* KFDProtocol::_operationInProgress
   abortReq,       \* KFDProtocol::_abortRequested
   useBusyStop,    \* TWI_HAL::_useBusyStopBits
   dataPin,        \* mode of the DATA GPIO
   sensePin,       \* level driven on the SENSE GPIO
   stack,          \* activation records of the dispatcher calls in progress
   ret,            \* the dispatcher call that returned last
   halRet,         \* the line-driver call that returned last
   probe           \* a framer / codec function applied on its own, one
                   \* operation followed wait by wait, or another component
                   \* of the firmware followed on its own

vars == << kfdInit, halInit, opInProgress, abortReq, useBusyStop,
           dataPin, sensePin, stack, ret, halRet, probe >>

\* activation record of a dispatcher call
CallRecord(op, keys, busy, depth) ==
   [op        |-> op,
    pc        |-> "entry",
    keys      |-> keys,        \* the KeyItems of the call
    i         |-> 0,           \* loop index of keyloadMultiple
    attempt   |-> 1,           \* loop variable of beginSession
    sessions  |-> 0,           \* calls of beginSession
    ready     |-> FALSE,       \* a ready response was accepted
    hsReply   |-> -1,          \* beginSession's local `response' (-1: timeout)
    response  |-> << >>,       \* the vector filled by receiveKmm
    rcvOk     |-> FALSE,       \* what receiveKmm returned
    rcvWire   |-> << >>,       \* the bytes the peer sent in reply to the KMM
    rcvCalls  |-> 0,           \* receiveByte calls of the last receiveKmm
    endReply  |-> -1,          \* endSession's local `response' (-1: timeout)
    endCalls  |-> 0,           \* receiveByte calls of endSession
    pend      |-> "",          \* result message decided before teardown
    tx        |-> << >>,       \* what this call put on the DATA wire
    rx        |-> 0,           \* receiveByte calls made by this call
    sent      |-> << >>,       \* key indexes whose ModifyKey frame was sent
    progress  |-> << >>,       \* the (current, total) handed to the callback
    entryBusy |-> busy,        \* _operationInProgress when called
    depth     |-> depth,       \* dispatcher calls already in progress
    abortDuring |-> FALSE,     \* abort() was called while this call ran
    missedAbort |-> FALSE,     \* a between-key check let such an abort pass
    ok        |-> FALSE,
    msg       |-> "",
    status    |-> STATUS_INTERNAL_ERROR]

NewCall(op, keys) == CallRecord(op, keys, opInProgress, Len(stack))

NoRet == CallRecord("none", << >>, FALSE, 0)

NoHalRet == [fn |-> "none", code |-> 0, faults |-> { }]

Top == stack[Len(stack)]

\* user code is running: no call in progress, or inside a progress callback
InUserCode == IF stack = << >> THEN TRUE ELSE Top.pc \in {"cb0", "cb"}

Returned(f, res) ==
   [f EXCEPT !.pc = "returned", !.ok = res.ok, !.msg = res.msg,
             !.status = res.status]

\* variant: eraseAllKeys leaves _operationInProgress set when it returns
clearsInProgress_notEraseAll(op) == op \notin {"testInventory", "eraseAllKeys"}

\* does the operation reset _operationInProgress on its return paths
clearsInProgress(op) == op # "testInventory"

\* is the call guarded by _operationInProgress
guardsInProgress(op) == op # "testInventory"

\* variant: no call resets _abortRequested
resetsAbort_never(op) == FALSE

\* does the call reset _abortRequested once past the guard
resetsAbort(op) == op \in {"keyload", "eraseKey", "keyloadMultiple"}

\* the objects as their constructors leave them
InitState ==
   /\ kfdInit = FALSE
   /\ halInit = FALSE
   /\ opInProgress = FALSE
   /\ abortReq = FALSE
   /\ useBusyStop = TRUE
   /\ dataPin = "unconfigured"
   /\ sensePin = "unconfigured"
   /\ stack = << >>
   /\ ret = NoRet
   /\ halRet = NoHalRet

NoProbe == [fn |-> "none", arg |-> << >>, out |-> << >>, done |-> FALSE]

Init == InitState /\ probe = NoProbe

(***************************************************************************)
(* Initialisation (setup() of main.cpp)                                    *)
(***************************************************************************)
\* TWI_HAL::init
HalInit ==
   /\ stack = << >>
   /\ ~halInit
   /\ halInit' = TRUE
   /\ dataPin' = kfdTxIdle
   /\ sensePin' = senTxConn
   /\ halRet' = [fn |-> "init", code |-> 0, faults |-> { }]
   /\ UNCHANGED << kfdInit, opInProgress, abortReq, useBusyStop, stack, ret,
                   probe >>

\* KFDProtocol::init
KfdInit ==
   /\ stack = << >>
   /\ ~kfdInit
   /\ kfdInit' = TRUE
   /\ UNCHANGED << halInit, opInProgress, abortReq, useBusyStop, dataPin,
                   sensePin, stack, ret, halRet, probe >>

(***************************************************************************)
(* Dispatcher                                                              *)
(***************************************************************************)
\* variant: a call resets _abortRequested before it looks at its guards
ReturnAtOnce_resetsAbort(f, res) ==
   /\ ret' = Returned(f, res)
   /\ halRet' = NoHalRet
   /\ abortReq' = FALSE
   /\ UNCHANGED << kfdInit, halInit, opInProgress, useBusyStop,
                   dataPin, sensePin, stack, probe >>

\* the call returns at once with `res', before touching anything
ReturnAtOnce(f, res) ==
   /\ ret' = Returned(f, res)
   /\ halRet' = NoHalRet
   /\ UNCHANGED << kfdInit, halInit, opInProgress, abortReq, useBusyStop,
                   dataPin, sensePin, stack, probe >>

\* variant: the total reported is the number of keys still to load
Progress_remaining(f, current) ==
   [f EXCEPT !.progress = Append(@, << current, Len(f.keys) - current >>)]

\* keyloadMultiple calls progress(current, keys.size(), status)
Progress(f, current) ==
   [f EXCEPT !.progress = Append(@, << current, Len(f.keys) >>)]

\* the call passes its guards and starts to run at `pc'
Enter(f, pc) ==
   /\ stack' = Append(stack, [f EXCEPT !.pc = pc])
   /\ opInProgress' = IF guardsInProgress(f.op) THEN TRUE ELSE opInProgress
   /\ abortReq' = IF resetsAbort(f.op) THEN FALSE ELSE abortReq
   /\ ret' = NoRet
   /\ halRet' = NoHalRet
   /\ UNCHANGED << kfdInit, halInit, useBusyStop, dataPin, sensePin, probe >>

\* entry of keyload, keyloadMultiple, eraseKey, eraseAllKeys, testInventory,
\* called from user code
Call(op, keys) ==
   /\ InUserCode
   /\ stack # << >> => Top.i < MaxReentryKey
   /\ LET f == NewCall(op, keys)
      IN  IF ~kfdInit
          THEN ReturnAtOnce(f, Result(FALSE, "Not initialized"))
          ELSE IF guardsInProgress(op) /\ opInProgress
          THEN ReturnAtOnce(f, Result(FALSE, "Operation in progress"))
          ELSE IF op = "keyloadMultiple" /\ keys = << >>
          THEN ReturnAtOnce(f, Result(FALSE, "No keys to load"))
          ELSE IF op = "keyloadMultiple"
          THEN Enter(Progress(f, 0), "cb0")
          ELSE Enter(f, "begin")

CallKeyload == \E k \in KeyItems : Call("keyload", << k >>)

\* (a null progress callback behaves as one that returns at once)
CallKeyloadMultiple == \E ks \in KeyLists : Call("keyloadMultiple", ks)

CallEraseKey ==
   \E a \in EraseArgs : Call("eraseKey", << eraseKeyItem(a[1], a[2]) >>)

CallEraseAllKeys == Call("eraseAllKeys", << >>)

CallTestInventory == Call("testInventory", << >>)

\* KFDProtocol::abort, called from user code
Abort ==
   /\ InUserCode
   /\ abortReq' = TRUE
   /\ stack' = [k \in DOMAIN stack |->
                  [stack[k] EXCEPT !.abortDuring = TRUE]]
   /\ UNCHANGED << kfdInit, halInit, opInProgress, useBusyStop, dataPin,
                   sensePin, ret, halRet, probe >>

\* replace the running activation record
SetTop(f) == stack' = [stack EXCEPT ![Len(stack)] = f]

\* the running call returns `res'
Return(f, res) ==
   /\ stack' = SubSeq(stack, 1, Len(stack) - 1)
   /\ ret' = Returned(f, res)
   /\ opInProgress' = IF clearsInProgress(f.op) THEN FALSE ELSE opInProgress

\* the progress callback returns to keyloadMultiple (and with it ends the
\* life of whatever a call made inside the callback returned)
CallbackReturn ==
   /\ stack # << >>
   /\ Top.pc \in {"cb0", "cb"}
   /\ SetTop([Top EXCEPT !.pc = IF Top.pc = "cb0" THEN "begin"
                                ELSE IF Top.i < Len(Top.keys) THEN "send"
                                ELSE "end"])
   /\ ret' = NoRet
   /\ UNCHANGED << kfdInit, halInit, opInProgress, abortReq, useBusyStop,
                   dataPin, sensePin, halRet, probe >>

\* where an operation goes on once beginSession returned true
afterReady(op) == IF op = "keyloadMultiple" THEN "check" ELSE "send"

\* message of the failure return when beginSession returned false
connectFailure(op) ==
   IF op = "testInventory" THEN "Failed to connect"
   ELSE "Failed to connect to radio"

\* one iteration of the loop of KFDProtocol::beginSession: key signature,
\* READY_REQ, receiveByte; on the last failed iteration the operation returns
BeginSessionAttempt ==
   /\ stack # << >>
   /\ Top.pc = "begin"
   /\ \E q \in ReadyReplies :
         LET heard == halInit /\ q # << >>
             f == [Top EXCEPT
                     !.sessions = IF Top.attempt = 1 THEN @ + 1 ELSE @,
                     !.tx = @ \o Transmitted(halInit,
                                     << KEY_SIGNATURE, TWI_READY_REQ >>),
                     !.rx = @ + 1,
                     !.hsReply = IF heard THEN Head(q) ELSE -1]
         IN  /\ dataPin' = receiveBytePin(halInit,
                              sendKeySignatureAndReadyReqPin(halInit, dataPin,
                                                             useBusyStop))
             /\ IF heard /\ readyAccepted(Head(q))
                THEN /\ SetTop([f EXCEPT !.ready = TRUE, !.pc = "ready"])
                     /\ UNCHANGED << opInProgress, ret >>
                ELSE IF f.attempt < beginSessionAttempts
                THEN /\ SetTop([f EXCEPT !.attempt = @ + 1])
                     /\ UNCHANGED << opInProgress, ret >>
                ELSE Return(f, Result(FALSE, connectFailure(f.op)))
   /\ UNCHANGED << kfdInit, halInit, abortReq, useBusyStop, sensePin, halRet,
                   probe >>

\* beginSession returns true after the post-ready delay; its locals die
SessionReady ==
   /\ stack # << >>
   /\ Top.pc = "ready"
   /\ SetTop([Top EXCEPT !.hsReply = -1, !.pc = afterReady(Top.op)])
   /\ UNCHANGED << kfdInit, halInit, opInProgress, abortReq, useBusyStop,
                   dataPin, sensePin, ret, halRet, probe >>

\* head of the loop of keyloadMultiple: the between-key abort check
LoopCheck ==
   /\ stack # << >>
   /\ Top.pc = "check"
   /\ LET f == Top
      IN  IF f.i < Len(f.keys)
          THEN IF abortReq
               THEN SetTop([f EXCEPT !.pend = "Aborted by user", !.pc = "end"])
               ELSE SetTop([Progress(f, f.i) EXCEPT
                               !.missedAbort = @ \/ f.abortDuring,
                               !.pc = "cb"])
          ELSE SetTop([Progress(f, Len(f.keys)) EXCEPT
                          !.pend = "keys loaded successfully",
                          !.pc = "cb"])
   /\ UNCHANGED << kfdInit, halInit, opInProgress, abortReq, useBusyStop,
                   dataPin, sensePin, ret, halRet, probe >>

\* variant: keyloadMultiple builds every frame from the first key
commandFrame_firstKey(f) ==
   CASE f.op \in {"keyload", "eraseKey", "keyloadMultiple"} ->
           buildKmmFrame(buildModifyKeyCommand(f.keys[1]))
     [] f.op = "eraseAllKeys" ->
           buildKmmFrame(buildZeroizeCommand)
     [] f.op = "testInventory" ->
           buildKmmFrame3(<< INV_LIST_ACTIVE_KSET_IDS >>,
                          MSG_INVENTORY_CMD, 192)

\* the frame an operation transmits
commandFrame(f) ==
   CASE f.op \in {"keyload", "eraseKey"} ->
           buildKmmFrame(buildModifyKeyCommand(f.keys[1]))
     [] f.op = "keyloadMultiple" ->
           buildKmmFrame(buildModifyKeyCommand(f.keys[f.i + 1]))
     [] f.op = "eraseAllKeys" ->
           buildKmmFrame(buildZeroizeCommand)
     [] f.op = "testInventory" ->
           buildKmmFrame3(<< INV_LIST_ACTIVE_KSET_IDS >>,
                          MSG_INVENTORY_CMD, 192)

\* build the command and send it with sendBytesFast (directly or via sendKmm)
SendFrame ==
   /\ stack # << >>
   /\ Top.pc = "send"
   /\ LET frame == commandFrame(Top)
      IN  /\ SetTop([Top EXCEPT !.tx = @ \o Transmitted(halInit, frame),
                                !.sent = Append(@, Top.i),
                                !.pc = "recv"])
          /\ dataPin' = sendBytesFastPin(halInit, dataPin, frame, useBusyStop)
   /\ UNCHANGED << kfdInit, halInit, opInProgress, abortReq, useBusyStop,
                   sensePin, ret, halRet, probe >>

\* receiveKmm and what the operation decides from it
ReceiveResponse ==
   /\ stack # << >>
   /\ Top.pc = "recv"
   /\ \E q \in KmmReplies :
         LET heard == IF halInit THEN q ELSE << >>
             r == receiveKmm(heard)
             f == [Top EXCEPT !.rcvOk = r.ok, !.response = r.kmm,
                              !.rcvWire = heard, !.rcvCalls = r.rx,
                              !.rx = @ + r.rx]
         IN  IF f.op = "keyloadMultiple"
             THEN IF ~r.ok
                  THEN SetTop([f EXCEPT !.pend = "No response from radio",
                                        !.pc = "end"])
                  ELSE IF ~keyAccepted(r.kmm)
                  THEN SetTop([f EXCEPT !.pend = "Key failed", !.pc = "end"])
                  ELSE SetTop([f EXCEPT !.i = @ + 1, !.pc = "check"])
             ELSE SetTop([f EXCEPT !.pc = "end"])
   /\ dataPin' = receiveBytePin(halInit, dataPin)
   /\ UNCHANGED << kfdInit, halInit, opInProgress, abortReq, useBusyStop,
                   sensePin, ret, halRet, probe >>

\* the result an operation returns after teardown
resultOf(f) ==
   CASE f.op \in {"keyload", "eraseKey"} ->
           IF ~f.rcvOk
           THEN Result(FALSE, "No response from radio after keyload")
           ELSE keyloadClassify(f.response)
     [] f.op = "keyloadMultiple" ->
           Result(f.pend = "keys loaded successfully", f.pend)
     [] f.op = "eraseAllKeys" ->
           IF ~f.rcvOk THEN Result(FALSE, "No response")
           ELSE Result(TRUE, "All keys erased")
     [] f.op = "testInventory" ->
           IF ~f.rcvOk THEN Result(FALSE, "No response to inventory")
           ELSE Result(TRUE, "Inventory succeeded")

\* endSession, then the operation returns
EndAndReturn ==
   /\ stack # << >>
   /\ Top.pc = "end"
   /\ \E q \in EndReplies :
         LET heard == IF halInit THEN q ELSE << >>
             f == [Top EXCEPT
                     !.tx = @ \o Transmitted(halInit, endSessionTx(heard)),
                     !.rx = @ + endSessionRx(heard),
                     !.endReply = IF heard = << >> THEN -1 ELSE Head(heard),
                     !.endCalls = endSessionRx(heard)]
         IN  Return(f, resultOf(f))
   /\ dataPin' = receiveBytePin(halInit,
                    sendBytePin(halInit, dataPin, TWI_TRANSFER_DONE,
                                useBusyStop))
   /\ sensePin' = disableInterface(sensePin)
   /\ UNCHANGED << kfdInit, halInit, abortReq, useBusyStop, halRet, probe >>

(***************************************************************************)
(* Line-driver calls made directly by user code (serial console, UI)       *)
(***************************************************************************)
HalCall(fn, code, data, sense) ==
   /\ stack = << >>
   /\ dataPin' = data
   /\ sensePin' = sense
   /\ halRet' = [fn |-> fn, code |-> code, faults |-> { }]
   /\ ret' = NoRet
   /\ UNCHANGED << kfdInit, halInit, opInProgress, abortReq, useBusyStop,
                   stack, probe >>

\* TWI_HAL::selfTest
SelfTest ==
   \E f \in SUBSET HwFaults :
      LET r == selfTest(halInit, dataPin, sensePin, f)
      IN  /\ stack = << >>
          /\ dataPin' = r.data
          /\ sensePin' = r.sense
          /\ halRet' = [fn |-> "selfTest", code |-> r.code, faults |-> f]
          /\ ret' = NoRet
          /\ UNCHANGED << kfdInit, halInit, opInProgress, abortReq,
                          useBusyStop, stack, probe >>

\* TWI_HAL::sendByte
HalSendByte ==
   \E b \in {0, 192, 255} :
      HalCall("sendByte", b,
              sendBytePin(halInit, dataPin, b, useBusyStop), sensePin)

\* TWI_HAL::sendBytesFast
HalSendBytesFast ==
   \E d \in {<< >>, << 192 >>, << 194, 0 >>} :
      HalCall("sendBytesFast", Len(d),
              sendBytesFastPin(halInit, dataPin, d, useBusyStop), sensePin)

\* TWI_HAL::sendKeySignature (asserts SENSE first)
HalSendKeySignature ==
   HalCall("sendKeySignature", 0, sendKeySignaturePin(halInit, dataPin),
           IF halInit THEN senTxConn ELSE sensePin)

\* TWI_HAL::sendKeySignatureAndReadyReq
HalSendKeySignatureAndReadyReq ==
   HalCall("sendKeySignatureAndReadyReq", 0,
           sendKeySignatureAndReadyReqPin(halInit, dataPin, useBusyStop),
           sensePin)

\* TWI_HAL::receiveByte: code 1 when a byte arrived, 0 on timeout
HalReceiveByte ==
   \E got \in BOOLEAN :
      HalCall("receiveByte", IF halInit /\ got THEN 1 ELSE 0,
              receiveBytePin(halInit, dataPin), sensePin)

\* TWI_HAL::reset: releases DATA and de-asserts SENSE; _initialized stays set
HalReset ==
   HalCall("reset", 0,
           IF halInit THEN kfdTxIdle ELSE dataPin,
           IF halInit THEN senTxDisc ELSE sensePin)

\* TWI_HAL::setStopBitMode
SetStopBitMode ==
   /\ stack = << >>
   /\ \E m \in BOOLEAN : useBusyStop' = m
   /\ UNCHANGED << kfdInit, halInit, opInProgress, abortReq, dataPin,
                   sensePin, stack, ret, halRet, probe >>

(***************************************************************************)
(* The framer and the byte codec applied on their own                      *)
(***************************************************************************)
\* the level of the shared wire in each half bit period of a waveform
RECURSIVE HalfBitLevels(_)
HalfBitLevels(wave) ==
   IF wave = << >> THEN << >>
   ELSE [h \in 1..(2 * Head(wave).bits) |-> Head(wave).pin]
           \o HalfBitLevels(Tail(wave))

\* TWI_HAL::kfdRxIsIdle at half bit period h (0-based) after the start edge;
\* the released line reads Idle
kfdRxIsIdle(wire, h) ==
   IF h + 1 > Len(wire) THEN TRUE ELSE wire[h + 1] = kfdTxIdle

\* TWI_HAL::receiveByte: the sampling loop, first sample at half bit period
\* `at', one sample per bit period
RECURSIVE RxSampleLoop(_, _, _, _)
RxSampleLoop(rxByte, bitsLeft, wire, at) ==
   IF bitsLeft = 0 \/ rxByte < 0 THEN rxByte
   ELSE RxSampleLoop(
           (rxByte + (IF kfdRxIsIdle(wire, at) THEN 1024 ELSE 0)) \div 2,
           bitsLeft - 1, wire, at + 2)

\* TWI_HAL::receiveByte: the byte delivered when sampling starts at `at'
receiveByteValue(wire, at) ==
   reverseBits((RxSampleLoop(0, 10, wire, at) \div 2) % 256)

\* where receiveByte takes its first sample: half a bit period after the
\* start edge it waited for, or at once when it found the line already Busy
\* (it then entered `late' half bit periods into the start bit)
RxFirstSample(alreadyLow, late) == IF alreadyLow THEN late ELSE 1

\* inputs of the framer
ProbeBodies ==
   { << >>, << INV_LIST_ACTIVE_KSET_IDS >>, buildZeroizeCommand,
     [i \in 1..250 |-> i % 256] }
      \cup { buildModifyKeyCommand(k) : k \in KeyItems }

ProbeMessageIds == { MSG_INVENTORY_CMD, MSG_MODIFY_KEY_CMD, MSG_ZEROIZE_CMD, 255 }

ProbeResponseKinds == { 0, 128, 192 }

\* inputs of calculateCrc16: "123456789" and the self-test frame of init
ProbeCrcData ==
   { << >>, << 0 >>, << 49, 50, 51, 52, 53, 54, 55, 56, 57 >>,
     << 0, 255, 255, 255 >> }

\* byte strings handed to sendBytesFast
ProbeData == { << 192 >>, << 194, 0 >>, << 1, 127, 255 >> }

Probe(fn, arg) == [fn |-> fn, arg |-> arg, out |-> << >>, done |-> FALSE]

Probes ==
   { Probe("buildKmmFrame",
           [body |-> b, messageId |-> m, responseKind |-> r]) :
        b \in ProbeBodies, m \in ProbeMessageIds, r \in ProbeResponseKinds }
      \cup { Probe("calculateCrc16", d) : d \in ProbeCrcData }
      \cup { Probe("sendByte", [byte |-> b, useBusyStopBits |-> u]) :
                b \in Byte, u \in BOOLEAN }
      \cup { Probe("sendBytesFast", [data |-> d, useBusyStopBits |-> u]) :
                d \in ProbeData, u \in BOOLEAN }

InitPure == InitState /\ probe \in Probes

ProbeStep(fn, out) ==
   /\ probe.fn = fn
   /\ ~probe.done
   /\ probe' = [probe EXCEPT !.out = out, !.done = TRUE]
   /\ UNCHANGED << kfdInit, halInit, opInProgress, abortReq, useBusyStop,
                   dataPin, sensePin, stack, ret, halRet >>

\* KFDProtocol::buildKmmFrame(body, messageId, responseKind)
ApplyBuildKmmFrame ==
   ProbeStep("buildKmmFrame",
             buildKmmFrame3(probe.arg.body, probe.arg.messageId,
                            probe.arg.responseKind))

\* P25::calculateCrc16
ApplyCalculateCrc16 == ProbeStep("calculateCrc16", calculateCrc16(probe.arg))

\* TWI_HAL::sendByte: what it puts on the wire
ApplySendByte ==
   ProbeStep("sendByte",
             HalfBitLevels(sendByteWave(probe.arg.byte,
                                        probe.arg.useBusyStopBits)))

\* TWI_HAL::sendBytesFast: what it puts on the wire
ApplySendBytesFast ==
   ProbeStep("sendBytesFast",
             HalfBitLevels(sendBytesFastWave(probe.arg.data,
                                             probe.arg.useBusyStopBits)))

\* TWI_HAL::receiveByte run on a wire that carries what sendByte sent
LoopbackReceiveByte ==
   /\ probe.fn = "sendByte"
   /\ probe.done
   /\ \E alreadyLow \in BOOLEAN, late \in {0, 1} :
         probe' = [fn |-> "receiveByte",
                   arg |-> [byte |-> probe.arg.byte,
                            useBusyStopBits |-> probe.arg.useBusyStopBits,
                            alreadyLow |-> alreadyLow,
                            at |-> RxFirstSample(alreadyLow, late)],
                   out |-> receiveByteValue(probe.out,
                                            RxFirstSample(alreadyLow, late)),
                   done |-> TRUE]
   /\ UNCHANGED << kfdInit, halInit, opInProgress, abortReq, useBusyStop,
                   dataPin, sensePin, stack, ret, halRet >>

(***************************************************************************)
(* The waits of one dispatcher operation, one receiveByte at a time        *)
(***************************************************************************)
\* clock ticks a wait of `ms' milliseconds lasts at least
Ticks(ms) == (ms + TickMs - 1) \div TickMs

\* the bytes a peer puts on the wire (0 is what a line held Busy reads as)
StreamBytes ==
   { 0, 2, 6, MSG_REKEY_ACK, TWI_TRANSFER_DONE, TWI_KMM, 195,
     TWI_READY_MODE_MR }

\* the timeout the operations hand to receiveKmm
receiveKmmTimeoutMs(op) ==
   IF op \in {"keyload", "eraseKey", "eraseAllKeys"} THEN 10000 ELSE 5000

\* the timeout of receiveByte at each of its call sites
receiveTimeoutMs(site, op) ==
   CASE site = "ready" -> 2000
     [] site \in {"opcode", "lenHi", "lenLo", "body"} ->
           receiveKmmTimeoutMs(op)
     [] site = "c3" -> 500
     [] site \in {"dbg", "raw"} -> 100
     [] site \in {"done", "disc"} -> 1000

\* how long receiveByte waits for the line to go Idle after the last bit
stopBitWaitMs == 50

\* variant: the 0xC3 dump has no safety limit
drainFull_never(size) == FALSE

\* the safety limit of the 0xC3 dump of receiveKmm
drainFull(size) == size > 100

\* iterations of the debug dump after an unexpected opcode, and of the raw
\* dump after an invalid length
dumpLimit(site) == IF site = "dbg" THEN 10 ELSE 20

\* an operation before its first step: past the entry guards, about to call
\* beginSession
WaitStart ==
   [pc      |-> "begin",
    site    |-> "none",    \* the call site of the receiveByte in progress
    elapsed |-> 0,         \* millis() - startMs of the wait in progress
    attempt |-> 1,         \* loop variable of beginSession (0: returned)
    key     |-> 0,         \* loop variable of keyloadMultiple
    n       |-> 0,         \* raw.size() of the 0xC3 dump, i of the other dumps
    lenHi   |-> 0,
    left    |-> 0,         \* len - i of the body loop of receiveKmm
    skip    |-> 0,         \* body bytes before the first one handed on
    kmm0    |-> "unset",   \* is kmm[0] MSG_REKEY_ACK
    rcv     |-> "none",    \* how the last receiveKmm ended ("c3 limit": at
                           \* the safety limit of the 0xC3 dump)
    msg     |-> ""]

WaitRuns ==
   { [fn   |-> "operation",
      arg  |-> [op |-> op, keys |-> nk, debug |-> d, initialized |-> h],
      out  |-> WaitStart,
      done |-> FALSE] :
        op \in Ops, nk \in 1..MaxKeys, d \in BOOLEAN, h \in BOOLEAN }

InitWait ==
   /\ InitState
   /\ probe \in { p \in WaitRuns :
                    p.arg.op # "keyloadMultiple" => p.arg.keys = 1 }

\* a call of receiveByte at `site' begins
Receive(w, site) == [w EXCEPT !.pc = "poll", !.site = site, !.elapsed = 0]

\* endSession is over and the operation returns
Finish(w, msg) == [w EXCEPT !.pc = "returned", !.site = "none", !.msg = msg]

\* receiveKmm returned: what the operation does next
AfterReceiveKmm(w, a, how) ==
   LET v == [w EXCEPT !.rcv = how, !.site = "none", !.n = 0, !.lenHi = 0,
                      !.left = 0, !.skip = 0]
       ok == how \in {"frame", "c3", "c3 limit"}
   IN  IF a.op = "keyloadMultiple" /\ ok /\ v.kmm0 = "ack"
          /\ v.key + 1 < a.keys
       THEN [v EXCEPT !.key = @ + 1, !.pc = "send"]
       ELSE IF a.op = "keyloadMultiple" /\ ok /\ v.kmm0 = "ack"
       THEN [v EXCEPT !.key = @ + 1, !.pc = "end"]
       ELSE [v EXCEPT !.pc = "end"]

\* the message an operation returns after endSession
WaitResult(w, a) ==
   IF w.rcv \in {"frame", "c3", "c3 limit"}
   THEN IF a.op = "keyloadMultiple" /\ w.key < a.keys THEN "Key failed"
        ELSE "answered"
   ELSE "No response"

\* receiveByte returned (got: with a byte, b) to the site that called it
Received(w, a, got, b) ==
   CASE w.site = "ready" ->
           IF got /\ readyAccepted(b)
           THEN [w EXCEPT !.pc = "send", !.site = "none", !.attempt = 0]
           ELSE [w EXCEPT !.pc = "delay", !.site = "none"]
     [] w.site = "opcode" ->
           IF ~got THEN AfterReceiveKmm(w, a, "silent")
           ELSE IF b = 195
           THEN Receive([w EXCEPT !.n = 1, !.kmm0 = "other"], "c3")
           ELSE IF b # TWI_KMM
           THEN IF a.debug THEN Receive([w EXCEPT !.n = 0], "dbg")
                ELSE AfterReceiveKmm(w, a, "opcode")
           ELSE Receive(w, "lenHi")
     [] w.site = "c3" ->
           IF got /\ ~drainFull(w.n + 1)
           THEN Receive([w EXCEPT !.n = Min(@ + 1, 101)], "c3")
           ELSE AfterReceiveKmm(w, a, IF got THEN "c3 limit" ELSE "c3")
     [] w.site \in {"dbg", "raw"} ->
           IF got /\ w.n + 1 < dumpLimit(w.site)
           THEN Receive([w EXCEPT !.n = @ + 1], w.site)
           ELSE AfterReceiveKmm(w, a,
                                IF w.site = "dbg" THEN "opcode" ELSE "length")
     [] w.site = "lenHi" ->
           IF ~got THEN AfterReceiveKmm(w, a, "cut")
           ELSE Receive([w EXCEPT !.lenHi = b], "lenLo")
     [] w.site = "lenLo" ->
           LET len == w.lenHi * 256 + b
           IN  IF ~got THEN AfterReceiveKmm(w, a, "cut")
               ELSE IF ~lengthInRange(len)
               THEN Receive([w EXCEPT !.n = 0], "raw")
               ELSE Receive([w EXCEPT !.left = len, !.lenHi = 0,
                                      !.skip = IF len > 6 THEN 4 ELSE 0],
                            "body")
     [] w.site = "body" ->
           IF ~got THEN AfterReceiveKmm(w, a, "cut")
           ELSE LET v == [w EXCEPT
                            !.left = @ - 1,
                            !.skip = IF @ > 0 THEN @ - 1 ELSE 0,
                            !.kmm0 = IF w.skip = 0 /\ @ = "unset"
                                     THEN IF b = MSG_REKEY_ACK THEN "ack"
                                          ELSE "other"
                                     ELSE @]
                IN  IF v.left > 0 THEN Receive(v, "body")
                    ELSE AfterReceiveKmm(v, a, "frame")
     [] w.site = "done" ->
           IF got /\ b = TWI_TRANSFER_DONE THEN Receive(w, "disc")
           ELSE Finish(w, WaitResult(w, a))
     [] w.site = "disc" -> Finish(w, WaitResult(w, a))

WaitStep(v) ==
   /\ probe.fn = "operation"
   /\ ~probe.done
   /\ probe' = [probe EXCEPT !.out = v, !.done = v.pc = "returned"]
   /\ UNCHANGED << kfdInit, halInit, opInProgress, abortReq, useBusyStop,
                   dataPin, sensePin, stack, ret, halRet >>

\* one iteration of the loop of beginSession up to its receiveByte: the key
\* signature and READY_REQ are sent in loops of fixed length
WaitBeginSession ==
   /\ probe.out.pc = "begin"
   /\ WaitStep(Receive(probe.out, "ready"))

\* TWI_HAL::receiveByte up to the start bit: the line is read, and while it is
\* Idle the time since the call is compared with the timeout
WaitStartBit ==
   /\ probe.out.pc = "poll"
   /\ \E busy \in BOOLEAN :
         LET w == probe.out
             a == probe.arg
             timeoutMs == receiveTimeoutMs(w.site, a.op)
         IN  IF ~a.initialized
             THEN WaitStep(Received(w, a, FALSE, 0))
             ELSE IF busy
             THEN WaitStep([w EXCEPT !.pc = "stop", !.elapsed = 0])
             ELSE IF timeoutMs > 0 /\ w.elapsed + 1 > Ticks(timeoutMs)
             THEN WaitStep(Received(w, a, FALSE, 0))
             ELSE WaitStep([w EXCEPT !.elapsed = @ + 1])

\* TWI_HAL::receiveByte after its ten samples: the wait for the stop bits ends
\* when the line is Idle or stopBitWaitMs have passed, and the byte is returned
WaitStopBits ==
   /\ probe.out.pc = "stop"
   /\ \E busy \in BOOLEAN, b \in StreamBytes :
         LET w == probe.out
         IN  IF busy /\ w.elapsed + 1 <= Ticks(stopBitWaitMs)
             THEN WaitStep([w EXCEPT !.elapsed = @ + 1])
             ELSE WaitStep(Received(w, probe.arg, TRUE, b))

\* the delay(500) that ends a failed iteration of beginSession, and the loop
\* test that follows it
WaitRetry ==
   /\ probe.out.pc = "delay"
   /\ LET w == probe.out
      IN  IF w.attempt < beginSessionAttempts
          THEN WaitStep([w EXCEPT !.attempt = @ + 1, !.pc = "begin"])
          ELSE WaitStep(Finish(w, "Failed to connect"))

\* the command frame is sent (sendBytesFast: loops over the frame; the debug
\* poll of sendKmm ends after 100 ms) and receiveKmm is called
WaitSendFrame ==
   /\ probe.out.pc = "send"
   /\ WaitStep(Receive([probe.out EXCEPT !.n = 0, !.lenHi = 0, !.left = 0,
                                         !.skip = 0, !.kmm0 = "unset"],
                       "opcode"))

\* endSession sends TRANSFER_DONE and calls receiveByte
WaitEndSession ==
   /\ probe.out.pc = "end"
   /\ WaitStep(Receive(probe.out, "done"))

(***************************************************************************)
(* Line speeds: DeviceSettings, setup() and TWI_HAL::setTxSpeed/setRxSpeed *)
(***************************************************************************)
\* "txSpeed" / "rxSpeed" as /settings.json may hold them (-1: no such member)
StoredSpeeds == { -1, 0, 1, 4, 9, 10, 200, 260 }

\* arguments of setTxSpeed and setRxSpeed (uint8_t)
SpeedArgs == { 0, 1, 2, 4, 9, 10, 255 }

\* DeviceManager::loadSettings: `doc["txSpeed"] | 4' stored in a uint8_t
loadedSpeed(stored) == IF stored = -1 THEN 4 ELSE stored % 256

\* TWI_HAL::setTxSpeed / setRxSpeed: the kilobaud and the bit period in
\* microseconds they leave
setSpeed(kilobaud) ==
   LET k == IF kilobaud = 0 THEN 4 ELSE kilobaud
   IN  [kilobaud |-> k, bitPeriod |-> 1000 \div k]

\* DeviceSettings::setDefaults, TWI_HAL::Config and the constructor TWI_HAL()
SpeedStart ==
   [fn   |-> "speed",
    arg  |-> << >>,
    out  |-> [settings |-> [tx |-> 4, rx |-> 4],
              tx |-> [kilobaud |-> 4, bitPeriod |-> 250],
              rx |-> [kilobaud |-> 4, bitPeriod |-> 250],
              last |-> "constructed"],
    done |-> FALSE]

InitSpeed == InitState /\ probe = SpeedStart

SpeedStep(out) ==
   /\ probe.fn = "speed"
   /\ probe' = [probe EXCEPT !.out = out]
   /\ UNCHANGED << kfdInit, halInit, opInProgress, abortReq, useBusyStop,
                   dataPin, sensePin, stack, ret, halRet >>

\* DeviceManager::loadSettings (DeviceSettings::validate is not called)
LoadSettings ==
   \E t \in StoredSpeeds, r \in StoredSpeeds :
      SpeedStep([probe.out EXCEPT
                   !.settings = [tx |-> loadedSpeed(t), rx |-> loadedSpeed(r)],
                   !.last = "loadSettings"])

\* setup(): TWI_HAL::init with the speeds of the settings
InitWithSettings ==
   SpeedStep([probe.out EXCEPT
                !.tx = setSpeed(probe.out.settings.tx),
                !.rx = setSpeed(probe.out.settings.rx),
                !.last = "init"])

\* TWI_HAL::setTxSpeed
SetTxSpeed ==
   \E k \in SpeedArgs :
      SpeedStep([probe.out EXCEPT !.tx = setSpeed(k), !.last = "setTxSpeed"])

\* TWI_HAL::setRxSpeed
SetRxSpeed ==
   \E k \in SpeedArgs :
      SpeedStep([probe.out EXCEPT !.rx = setSpeed(k), !.last = "setRxSpeed"])

(***************************************************************************)
(* DeviceManager: login, logout and the PIN lockout                        *)
(***************************************************************************)
\* DeviceSettings::setDefaults
maxPinAttempts == 5

lockoutTime == 60

\* steps of the millisecond clock in one second
StepsPerSecond == 2

\* millis() / 1000 when the clock has made t steps
UptimeSeconds(t) == t \div StepsPerSecond

\* variant: the lockout ends at the second it began
lockoutEnd_atOnce(now) == now

\* _session.lockoutEndTime as login sets it
lockoutEnd(now) == now + lockoutTime

\* UserSession() and the clock at start-up; `streak' and `trigger' keep, for
\* the properties, the failed attempts in a row and the second of the
\* attempt that made them maxPinAttempts (-1: none)
LoginStart ==
   [fn   |-> "login",
    arg  |-> [role |-> "ROLE_NONE", pinOk |-> FALSE, result |-> FALSE],
    out  |-> [t |-> 0,
              role |-> "ROLE_NONE",
              failedAttempts |-> 0,
              lockedOut |-> FALSE,
              lockoutEndTime |-> 0,
              streak |-> 0,
              trigger |-> -1],
    done |-> FALSE]

InitLogin == InitState /\ probe = LoginStart

\* is second `now' inside the lockout that began at second s.trigger
InLockout(s, now) == s.trigger # -1 /\ now < s.trigger + lockoutTime

\* DeviceManager::login(role, pin) at second `now'; pinOk: verifyPIN(role,
\* pin).  The session it leaves and the value it returns.  (lockoutEndTime is
\* read only while lockedOut is set: its stale value is not kept.)
login(s, role, pinOk, now) ==
   LET expired == s.lockedOut /\ ~(now < s.lockoutEndTime)
       u == IF expired
            THEN [s EXCEPT !.lockedOut = FALSE, !.failedAttempts = 0,
                           !.lockoutEndTime = 0]
            ELSE s
       failed == (u.failedAttempts + 1) % 256
   IN  IF s.lockedOut /\ now < s.lockoutEndTime
       THEN [session |-> s, result |-> FALSE]
       ELSE IF ~pinOk
       THEN [session |->
                IF failed >= maxPinAttempts
                THEN [u EXCEPT !.failedAttempts = failed, !.lockedOut = TRUE,
                               !.lockoutEndTime = lockoutEnd(now)]
                ELSE [u EXCEPT !.failedAttempts = failed],
             result |-> FALSE]
       ELSE [session |-> [u EXCEPT !.role = role, !.failedAttempts = 0],
             result |-> TRUE]

\* what an attempt at second `now' makes of streak and trigger
Attempted(s, ok, now) ==
   IF InLockout(s, now) THEN s
   ELSE LET streak == IF s.trigger # -1 THEN 0 ELSE s.streak
        IN  IF ok THEN [s EXCEPT !.streak = 0, !.trigger = -1]
            ELSE IF streak + 1 >= maxPinAttempts
            THEN [s EXCEPT !.streak = streak + 1, !.trigger = now]
            ELSE [s EXCEPT !.streak = streak + 1, !.trigger = -1]

LoginStep(arg, out) ==
   /\ probe.fn = "login"
   /\ probe' = [probe EXCEPT !.arg = arg, !.out = out]
   /\ UNCHANGED << kfdInit, halInit, opInProgress, abortReq, useBusyStop,
                   dataPin, sensePin, stack, ret, halRet >>

\* a login attempt from the PIN pad
Login ==
   \E role \in {"ROLE_OPERATOR", "ROLE_ADMIN"}, pinOk \in BOOLEAN :
      LET now == UptimeSeconds(probe.out.t)
          r == login(probe.out, role, pinOk, now)
      IN  LoginStep([role |-> role, pinOk |-> pinOk, result |-> r.result],
                    Attempted(r.session, r.result, now))

\* DeviceManager::logout
Logout ==
   /\ probe.out.role # "ROLE_NONE"
   /\ LoginStep(probe.arg, [probe.out EXCEPT !.role = "ROLE_NONE"])

\* the millisecond clock goes on
TimePasses ==
   /\ UptimeSeconds(probe.out.t) < MaxUptime
   /\ LoginStep(probe.arg, [probe.out EXCEPT !.t = @ + 1])

(***************************************************************************)
(* ContainerManager: the container list and the active index               *)
(***************************************************************************)
\* the containers handed to addContainer, told apart by a number; 0 is the
\* demo container of loadDefaults
ContainerIds == 0..2

\* ContainerManager() followed by init(): no containers, no active index;
\* `file' is /containers.json ("none": no such file)
ContainerStart ==
   [fn   |-> "containers",
    arg  |-> << >>,
    out  |-> [containers |-> << >>, activeIndex |-> -1, file |-> "none",
              last |-> "init", ok |-> TRUE],
    done |-> FALSE]

InitContainers == InitState /\ probe = ContainerStart

ContainerStep(out) ==
   /\ probe.fn = "containers"
   /\ probe' = [probe EXCEPT !.out = out]
   /\ UNCHANGED << kfdInit, halInit, opInProgress, abortReq, useBusyStop,
                   dataPin, sensePin, stack, ret, halRet >>

\* the sequence q without its element number k (counted from 1)
Without(q, k) == SubSeq(q, 1, k - 1) \o SubSeq(q, k + 1, Len(q))

\* ContainerManager::addContainer
AddContainer ==
   /\ Len(probe.out.containers) < MaxContainers
   /\ \E c \in ContainerIds :
         ContainerStep([probe.out EXCEPT !.containers = Append(@, c),
                                         !.last = "addContainer",
                                         !.ok = TRUE])

\* ContainerManager::deleteContainer(idx)
DeleteContainer ==
   \E idx \in 0..MaxContainers :
      LET o == probe.out
      IN  IF idx >= Len(o.containers)
          THEN ContainerStep([o EXCEPT !.last = "deleteContainer",
                                       !.ok = FALSE])
          ELSE ContainerStep(
                  [o EXCEPT !.containers = Without(@, idx + 1),
                            !.activeIndex = IF @ = idx THEN -1
                                            ELSE IF @ > idx THEN @ - 1
                                            ELSE @,
                            !.last = "deleteContainer",
                            !.ok = TRUE])

\* ContainerManager::setActiveIndex(idx)
SetActiveIndex ==
   \E idx \in -2..MaxContainers :
      LET o == probe.out
      IN  IF idx < -1 \/ idx >= Len(o.containers)
          THEN ContainerStep([o EXCEPT !.last = "setActiveIndex",
                                       !.ok = FALSE])
          ELSE ContainerStep([o EXCEPT !.activeIndex = idx,
                                       !.last = "setActiveIndex",
                                       !.ok = TRUE])

\* ContainerManager::saveNow: serializeContainers written to the file
SaveNow ==
   ContainerStep([probe.out EXCEPT !.file = probe.out.containers,
                                   !.last = "saveNow", !.ok = TRUE])

\* ContainerManager::load: deserializeContainers of the file replaces the
\* list; _activeIndex is not assigned
LoadContainers ==
   LET o == probe.out
   IN  IF o.file = "none"
       THEN ContainerStep([o EXCEPT !.last = "load", !.ok = FALSE])
       ELSE ContainerStep([o EXCEPT !.containers = o.file,
                                    !.last = "load", !.ok = TRUE])

\* ContainerManager::loadDefaults
LoadDefaults ==
   ContainerStep([probe.out EXCEPT !.containers = << 0 >>,
                                   !.activeIndex = 0,
                                   !.last = "loadDefaults", !.ok = TRUE])

\* ContainerManager::factoryReset
ContainerFactoryReset ==
   ContainerStep([probe.out EXCEPT !.containers = << >>,
                                   !.activeIndex = -1,
                                   !.file = "none",
                                   !.last = "factoryReset", !.ok = TRUE])

(***************************************************************************)
(* Critical sections: the Line Driver functions one statement at a time,   *)
(* times in microseconds                                                   *)
(***************************************************************************)
portDISABLE_INTERRUPTS == [op |-> "disable"]
portENABLE_INTERRUPTS == [op |-> "enable"]

\* the line held at `pin' for `us' microseconds (a pin write followed by
\* delays), as `part' of the function
Hold(part, pin, us) == [op |-> "hold", part |-> part, pin |-> pin, us |-> us]

\* a polling loop on the line that ends by a level or by a timeout
Poll(part) == [op |-> "poll", part |-> part]

\* the segments of a waveform as holds at a bit period of `bitPeriod' us
Holds(part, wave, bitPeriod) ==
   [i \in 1..Len(wave) |-> Hold(part, wave[i].pin, wave[i].bits * bitPeriod)]

\* the body of the byte loop of sendByte and sendBytesFast
byteFrameCode(byte, useBusyStopBits, bitPeriod) ==
   << portDISABLE_INTERRUPTS >>
      \o Holds("frame", SubSeq(sendByteWave(byte, useBusyStopBits), 1, 10),
               bitPeriod)
      \o Holds("stop", << TxStopBits(useBusyStopBits)[1] >>, bitPeriod)
      \o << portENABLE_INTERRUPTS >>
      \o Holds("gap", << TxStopBits(useBusyStopBits)[2] >>, bitPeriod)

\* TWI_HAL::sendByte
sendByteCode(init, byte, useBusyStopBits, bitPeriod) ==
   IF ~init THEN << >> ELSE byteFrameCode(byte, useBusyStopBits, bitPeriod)

RECURSIVE byteFramesCode(_, _, _)
byteFramesCode(data, useBusyStopBits, bitPeriod) ==
   IF data = << >> THEN << >>
   ELSE byteFrameCode(Head(data), useBusyStopBits, bitPeriod)
           \o byteFramesCode(Tail(data), useBusyStopBits, bitPeriod)

\* TWI_HAL::sendBytesFast
sendBytesFastCode(init, data, useBusyStopBits, bitPeriod) ==
   IF ~init \/ data = << >> THEN << >>
   ELSE byteFramesCode(data, useBusyStopBits, bitPeriod)
           \o << Hold("settle", kfdTxIdle, 1000) >>

\* TWI_HAL::sendKeySignature: the periods of the signature are 1000 us each
sendKeySignatureCode(init) ==
   IF ~init THEN << >>
   ELSE << portDISABLE_INTERRUPTS >>
           \o Holds("signature", keySignatureWave, 1000)
           \o << portENABLE_INTERRUPTS >>

\* TWI_HAL::sendKeySignatureAndReadyReq
sendKeySignatureAndReadyReqCode(init, useBusyStopBits, bitPeriod) ==
   IF ~init THEN << >>
   ELSE sendKeySignatureCode(init)
           \o sendByteCode(init, TWI_READY_REQ, useBusyStopBits, bitPeriod)

\* the sampling loop of receiveByte: half a bit period after a fresh start
\* edge, then ten samples a bit period apart
rxSampleCode(alreadyLow, bitPeriod) ==
   (IF alreadyLow THEN << >>
    ELSE << Hold("centre", kfdTxIdle, bitPeriod \div 2) >>)
      \o [i \in 1..9 |-> Hold("sample", kfdTxIdle, bitPeriod)]

\* variant: interrupts disabled before the wait for the start bit
receiveByteCode_disableBeforeWait(init, path, bitPeriod) ==
   IF ~init THEN << >>
   ELSE IF path = "timeout"
   THEN << portDISABLE_INTERRUPTS, Poll("startWait") >>
   ELSE << portDISABLE_INTERRUPTS >>
           \o (IF path = "alreadyLow" THEN << >>
               ELSE << Poll("startWait") >>)
           \o rxSampleCode(path = "alreadyLow", bitPeriod)
           \o << portENABLE_INTERRUPTS, Poll("stopWait") >>

\* TWI_HAL::receiveByte on each of its paths: the wait for the start bit
\* times out ("timeout"), ends by a falling edge ("edge"), or is skipped
\* because the line is Busy on entry ("alreadyLow")
receiveByteCode(init, path, bitPeriod) ==
   IF ~init THEN << >>
   ELSE IF path = "timeout" THEN << Poll("startWait") >>
   ELSE (IF path = "alreadyLow" THEN << >> ELSE << Poll("startWait") >>)
           \o << portDISABLE_INTERRUPTS >>
           \o rxSampleCode(path = "alreadyLow", bitPeriod)
           \o << portENABLE_INTERRUPTS, Poll("stopWait") >>

\* the speeds, bytes and paths the functions are followed for
IrqKilobauds == { 2, TxKilobaud, 9 }
IrqBytes == { 0, TWI_READY_REQ, 255 }
IrqData == { << >>, << TWI_KMM, 0 >> }
RxPaths == { "timeout", "edge", "alreadyLow" }

IrqCalls ==
   { [fn |-> "sendByte", init |-> i, kilobaud |-> k, useBusyStopBits |-> u,
      byte |-> b, data |-> << >>, path |-> "none"] :
        i \in BOOLEAN, k \in IrqKilobauds, u \in BOOLEAN, b \in IrqBytes }
   \cup
   { [fn |-> "sendBytesFast", init |-> i, kilobaud |-> k,
      useBusyStopBits |-> u, byte |-> 0, data |-> d, path |-> "none"] :
        i \in BOOLEAN, k \in IrqKilobauds, u \in BOOLEAN, d \in IrqData }
   \cup
   { [fn |-> f, init |-> i, kilobaud |-> k, useBusyStopBits |-> u,
      byte |-> 0, data |-> << >>, path |-> "none"] :
        f \in {"sendKeySignature", "sendKeySignatureAndReadyReq"},
        i \in BOOLEAN, k \in IrqKilobauds, u \in BOOLEAN }
   \cup
   { [fn |-> "receiveByte", init |-> i, kilobaud |-> k,
      useBusyStopBits |-> TRUE, byte |-> 0, data |-> << >>, path |-> p] :
        i \in BOOLEAN, k \in IrqKilobauds, p \in RxPaths }

\* the bit period in effect at the speed of the call
IrqBitPeriod(a) == setSpeed(a.kilobaud).bitPeriod

\* the statements of the call a
IrqCode(a) ==
   CASE a.fn = "sendByte" ->
           sendByteCode(a.init, a.byte, a.useBusyStopBits, IrqBitPeriod(a))
     [] a.fn = "sendBytesFast" ->
           sendBytesFastCode(a.init, a.data, a.useBusyStopBits,
                             IrqBitPeriod(a))
     [] a.fn = "sendKeySignature" -> sendKeySignatureCode(a.init)
     [] a.fn = "sendKeySignatureAndReadyReq" ->
           sendKeySignatureAndReadyReqCode(a.init, a.useBusyStopBits,
                                           IrqBitPeriod(a))
     [] a.fn = "receiveByte" ->
           receiveByteCode(a.init, a.path, IrqBitPeriod(a))

\* a call on entry: interrupts enabled, nothing executed; `window' is the
\* time since interrupts were disabled, `part' the statement just executed
InitIrq ==
   /\ InitState
   /\ \E a \in IrqCalls :
         probe = [fn |-> "irq", arg |-> a,
                  out |-> [pc |-> 1, irqOn |-> TRUE, window |-> 0,
                           part |-> "entry"],
                  done |-> FALSE]

IrqStep(kind, out) ==
   /\ probe.fn = "irq"
   /\ ~probe.done
   /\ probe.out.pc <= Len(IrqCode(probe.arg))
   /\ IrqCode(probe.arg)[probe.out.pc].op = kind
   /\ probe' = [probe EXCEPT !.out = [out EXCEPT !.pc = @ + 1]]
   /\ UNCHANGED << kfdInit, halInit, opInProgress, abortReq, useBusyStop,
                   dataPin, sensePin, stack, ret, halRet >>

\* portDISABLE_INTERRUPTS()
DisableInterrupts ==
   IrqStep("disable", [probe.out EXCEPT !.irqOn = FALSE, !.window = 0,
                                        !.part = "disable"])

\* portENABLE_INTERRUPTS()
EnableInterrupts ==
   IrqStep("enable", [probe.out EXCEPT !.irqOn = TRUE, !.window = 0,
                                       !.part = "enable"])

\* a pin write and the delays that follow it
HoldLine ==
   /\ probe.fn = "irq"
   /\ probe.out.pc <= Len(IrqCode(probe.arg))
   /\ LET c == IrqCode(probe.arg)[probe.out.pc]
      IN  IrqStep("hold",
                  [probe.out EXCEPT
                      !.window = IF probe.out.irqOn THEN 0 ELSE @ + c.us,
                      !.part = c.part])

\* a polling loop; its length is not followed
PollLine ==
   /\ probe.fn = "irq"
   /\ probe.out.pc <= Len(IrqCode(probe.arg))
   /\ IrqStep("poll",
              [probe.out EXCEPT
                  !.part = IrqCode(probe.arg)[probe.out.pc].part])

\* the return of the function
IrqReturn ==
   /\ probe.fn = "irq"
   /\ ~probe.done
   /\ probe.out.pc > Len(IrqCode(probe.arg))
   /\ probe' = [probe EXCEPT !.done = TRUE, !.out.part = "return"]
   /\ UNCHANGED << kfdInit, halInit, opInProgress, abortReq, useBusyStop,
                   dataPin, sensePin, stack, ret, halRet >>

(***************************************************************************)
(* Specifications                                                          *)
(***************************************************************************)
\* the dispatcher with its initialisation and the user's abort()
NextOps ==
   \/ HalInit
   \/ KfdInit
   \/ CallKeyload
   \/ CallKeyloadMultiple
   \/ CallEraseKey
   \/ CallEraseAllKeys
   \/ CallTestInventory
   \/ Abort
   \/ CallbackReturn
   \/ BeginSessionAttempt
   \/ SessionReady
   \/ LoopCheck
   \/ SendFrame
   \/ ReceiveResponse
   \/ EndAndReturn

\* the direct line-driver calls
NextHal ==
   \/ SelfTest
   \/ HalSendByte
   \/ HalSendBytesFast
   \/ HalSendKeySignature
   \/ HalSendKeySignatureAndReadyReq
   \/ HalReceiveByte
   \/ HalReset
   \/ SetStopBitMode

Next == NextOps \/ NextHal

Spec == Init /\ [][Next]_vars

\* only dispatcher operations are performed on the line driver
SpecOps == Init /\ [][NextOps]_vars

\* the framer and the byte codec applied to inputs of their own
NextPure ==
   \/ ApplyBuildKmmFrame
   \/ ApplyCalculateCrc16
   \/ ApplySendByte
   \/ ApplySendBytesFast
   \/ LoopbackReceiveByte

SpecPure == InitPure /\ [][NextPure]_vars

\* one dispatcher operation followed through each of its waits, the peer
\* driving the line as it likes
NextWait ==
   \/ WaitBeginSession
   \/ WaitStartBit
   \/ WaitStopBits
   \/ WaitRetry
   \/ WaitSendFrame
   \/ WaitEndSession

\* the operation runs on one task that is never starved and the millisecond
\* clock advances: a step that can be taken is taken
SpecWait == InitWait /\ [][NextWait]_vars /\ WF_vars(NextWait)

\* the line speeds through loading of the settings, init and the setters
NextSpeed ==
   \/ LoadSettings
   \/ InitWithSettings
   \/ SetTxSpeed
   \/ SetRxSpeed

SpecSpeed == InitSpeed /\ [][NextSpeed]_vars

\* login attempts, logouts and the passing of time
NextLogin ==
   \/ Login
   \/ Logout
   \/ TimePasses

SpecLogin == InitLogin /\ [][NextLogin]_vars

\* the operations of the ContainerManager in any order
NextContainers ==
   \/ AddContainer
   \/ DeleteContainer
   \/ SetActiveIndex
   \/ SaveNow
   \/ LoadContainers
   \/ LoadDefaults
   \/ ContainerFactoryReset

SpecContainers == InitContainers /\ [][NextContainers]_vars

\* one Line Driver function from entry to return
NextIrq ==
   \/ DisableInterrupts
   \/ EnableInterrupts
   \/ HoldLine
   \/ PollLine
   \/ IrqReturn

SpecIrq == InitIrq /\ [][NextIrq]_vars

(***************************************************************************)
(* Properties                                                              *)
(***************************************************************************)
\* the dispatcher calls in progress and the one that returned last
CallRecords ==
   { stack[k] : k \in DOMAIN stack }
      \cup (IF ret.op \in Ops THEN { ret } ELSE { })

\* is w a complete 0xC2 frame: opcode, 16-bit length, that many bytes with
\* room for control, destination RSI and CRC
IsKmmFrame(w) ==
   /\ Len(w) >= 9
   /\ w[1] = TWI_KMM
   /\ Len(w) = 3 + w[2] * 256 + w[3]

\* the inner KMM of a complete 0xC2 frame: what lies between the four bytes
\* of control and destination RSI and the two bytes of CRC
InnerKmm(w) == SubSeq(w, 8, Len(w) - 2)

\* positions of the key signatures in what a call transmitted
SignaturesAt(tx) == { i \in DOMAIN tx : tx[i] = KEY_SIGNATURE }

\* the transmissions of n handshake attempts
RECURSIVE Handshake(_)
Handshake(n) ==
   IF n = 0 THEN << >>
   ELSE << KEY_SIGNATURE, TWI_READY_REQ >> \o Handshake(n - 1)

\* one ModifyKey frame per key, in list order
RECURSIVE ModifyKeyFrames(_)
ModifyKeyFrames(keys) ==
   IF keys = << >> THEN << >>
   ELSE buildKmmFrame(buildModifyKeyCommand(Head(keys)))
           \o ModifyKeyFrames(Tail(keys))

\* does tx end with the transmissions of endSession
EndsWithTransferDone(tx) ==
   \/ Len(tx) >= 1 /\ tx[Len(tx)] = TWI_TRANSFER_DONE
   \/ /\ Len(tx) >= 2
      /\ tx[Len(tx) - 1] = TWI_TRANSFER_DONE
      /\ tx[Len(tx)] = TWI_DISCONNECT

\* C1: a dispatcher operation called while another one is in progress
\* returns "Operation in progress" and neither transmits nor receives, so
\* that no two dispatcher operations are ever in flight together.
C1_OperationInProgress ==
   /\ Len(stack) <= 1
   /\ \A f \in CallRecords :
         f.entryBusy => /\ f.pc = "returned"
                        /\ ~f.ok
                        /\ f.msg = "Operation in progress"
                        /\ f.tx = << >>
                        /\ f.rx = 0

\* C2: keyload returns success exactly when the peer answered with a 0xC2
\* frame whose inner KMM starts with the message id 0x07.
C2_SuccessIffRekeyAck ==
   ret.op = "keyload" =>
      (ret.ok <=> /\ IsKmmFrame(ret.rcvWire)
                  /\ InnerKmm(ret.rcvWire) # << >>
                  /\ InnerKmm(ret.rcvWire)[1] = 7)

\* C3: when the inner KMM of the response to keyload starts with 0x08 and
\* has a byte at offset 2, keyload fails and reports that byte as status.
C3_NakStatus ==
   (/\ ret.op \in {"keyload", "eraseKey"}
    /\ IsKmmFrame(ret.rcvWire)
    /\ Len(InnerKmm(ret.rcvWire)) >= 3
    /\ InnerKmm(ret.rcvWire)[1] = 8)
      => /\ ~ret.ok
         /\ ret.status = InnerKmm(ret.rcvWire)[3]

C3_Witness ==
   /\ ret.op = "keyload"
   /\ ret.rcvWire = PeerFrame(<< 8, 0, 6 >>)
   /\ ~ret.ok
   /\ ret.status = 6

\* C4: a call makes at most 3 handshake attempts; it makes another attempt
\* only after a timeout or a byte other than 0xD0/0xD1, stops the handshake
\* at the first 0xD0/0xD1, and after 3 rejected attempts returns failure
\* having transmitted no 0xC2 frame.
C4_Handshake ==
   \A f \in CallRecords :
      /\ Cardinality(SignaturesAt(f.tx)) <= 3
      /\ (f.pc = "begin" /\ f.attempt > 1) => f.hsReply \notin {208, 209}
      /\ f.pc = "ready" => f.hsReply \in {208, 209}
      /\ f.ready => f.tx = Handshake(Cardinality(SignaturesAt(f.tx)))
                              \o SubSeq(f.tx,
                                        2 * Cardinality(SignaturesAt(f.tx)) + 1,
                                        Len(f.tx))
      /\ (f.pc = "returned" /\ f.sessions > 0 /\ ~f.ready)
            => /\ ~f.ok
               /\ f.hsReply \notin {208, 209}
               /\ f.tx \in { << >>, Handshake(3) }
               /\ f.msg \in {"Failed to connect", "Failed to connect to radio"}

C4_Witness ==
   /\ ret.op \in Ops
   /\ ~ret.ready
   /\ ret.tx = Handshake(3)
   /\ ret.hsReply = 85
   /\ ~ret.ok

\* C5: a call that accepted a ready response ends what it transmits with
\* TRANSFER_DONE (followed at most by DISCONNECT), whatever it returns.
C5_TransferDoneOnEveryReturn ==
   (ret.op \in Ops /\ ret.ready) => EndsWithTransferDone(ret.tx)

C5_Witness ==
   /\ ret.op = "keyload"
   /\ ret.ready
   /\ ~ret.rcvOk
   /\ ret.msg = "No response from radio after keyload"
   /\ EndsWithTransferDone(ret.tx)

C7_DataReleased ==
   (/\ halInit
    /\ \/ ret.op \in Ops
       \/ halRet.fn \in {"sendByte", "sendBytesFast", "sendKeySignature",
                         "sendKeySignatureAndReadyReq", "receiveByte",
                         "selfTest"})
      => dataPin = kfdTxIdle

C7_Witness ==
   /\ halInit
   /\ useBusyStop
   /\ halRet.fn = "sendByte"
   /\ dataPin = kfdTxIdle

\* the key-material lengths the dispatcher is to insist on
CheckedKeyLength ==
   [a \in {128, 129, 130, 131, 132, 133, 159, 170} |->
      CASE a = 129 -> 8  [] a = 130 -> 16 [] a = 131 -> 24 [] a = 132 -> 32
        [] a = 133 -> 16 [] a = 159 -> 13 [] a = 170 -> 5  [] a = 128 -> 0]

WrongKeyLength(k) ==
   /\ k.algorithmId \in DOMAIN CheckedKeyLength
   /\ Len(k.key) # CheckedKeyLength[k.algorithmId]

\* C8: a keyload or keyloadMultiple call that is handed a KeyItem whose key
\* length differs from the length of its algorithm transmits nothing and
\* does not succeed.
C8_WrongLengthRejected ==
   \A f \in CallRecords :
      (/\ f.op \in {"keyload", "keyloadMultiple"}
       /\ \E j \in DOMAIN f.keys : WrongKeyLength(f.keys[j]))
         => /\ f.tx = << >>
            /\ f.pc = "returned" => ~f.ok

\* C9: only keyloadMultiple returns "Aborted by user", and only when abort()
\* was called while it ran; the between-key check never lets such an abort
\* pass, and the aborted call sent the frames of the keys before the check,
\* then the teardown, and nothing else.
C9_Abort ==
   \A f \in CallRecords :
      /\ ~f.missedAbort
      /\ "Aborted by user" \in {f.pend, f.msg}
            => /\ f.op = "keyloadMultiple"
               /\ f.abortDuring
               /\ Len(f.sent) = f.i
      /\ (f.pc = "returned" /\ f.msg = "Aborted by user")
            => /\ ~f.ok
               /\ \E t \in { << TWI_TRANSFER_DONE >>,
                             << TWI_TRANSFER_DONE, TWI_DISCONNECT >> } :
                     f.tx = Handshake(f.attempt)
                               \o ModifyKeyFrames(SubSeq(f.keys, 1, f.i))
                               \o t

C9_Witness ==
   /\ ret.op = "keyloadMultiple"
   /\ ret.abortDuring
   /\ ret.msg = "Aborted by user"
   /\ ret.sent = << 0 >>
   /\ Len(ret.keys) = 2

\* C10: a keyloadMultiple call that succeeds made one handshake and sent
\* one ModifyKey frame per key in list order; whatever it returns, what a
\* keyloadMultiple call has sent by then is the handshake, the frames of the
\* first keys of its list, each once, and the teardown.
C10_OneFramePerKey ==
   \A f \in CallRecords :
      f.op = "keyloadMultiple"
         => /\ f.sessions <= 1
            /\ Len(f.sent) <= Len(f.keys)
            /\ f.sent = [j \in 1..Len(f.sent) |-> j - 1]
            /\ (f.pc = "returned" /\ f.ready)
                  => \E t \in { << TWI_TRANSFER_DONE >>,
                                << TWI_TRANSFER_DONE, TWI_DISCONNECT >> } :
                        f.tx = Handshake(f.attempt)
                                  \o ModifyKeyFrames(
                                        SubSeq(f.keys, 1, Len(f.sent)))
                                  \o t
            /\ (f.pc = "returned" /\ f.ok)
                  => /\ f.sessions = 1
                     /\ Len(f.sent) = Len(f.keys)
                     /\ EndsWithTransferDone(f.tx)

C10_Witness ==
   /\ ret.op = "keyloadMultiple"
   /\ ret.ok
   /\ Len(ret.keys) = 2
   /\ ret.keys[1] # ret.keys[2]
   /\ ret.sent = << 0, 1 >>

\* is w a complete 0xC2 frame whose inner KMM starts with the message id 0x07
IsRekeyAckFrame(w) ==
   /\ IsKmmFrame(w)
   /\ InnerKmm(w) # << >>
   /\ InnerKmm(w)[1] = 7

\* C11: keyloadMultiple sends the frame of a further key only after the peer
\* answered the frame before it with a 0xC2 frame whose inner KMM starts with
\* 0x07; it succeeds only if the last answer was such a frame, and when key i
\* fails it has sent the frames up to key i and returns failure.
C11_AbortsOnFirstFailure ==
   \A f \in CallRecords :
      f.op = "keyloadMultiple"
         => /\ (f.pc = "recv" /\ Len(f.sent) >= 2)
                  => IsRekeyAckFrame(f.rcvWire)
            /\ (f.pc = "returned" /\ f.ok) => IsRekeyAckFrame(f.rcvWire)
            /\ (f.pend \in {"No response from radio", "Key failed"})
                  => /\ f.pc \in {"end", "returned"}
                     /\ Len(f.sent) = f.i + 1
                     /\ f.pc = "returned" => ~f.ok

\* the buildKmmFrame applications that have produced their frame
BuiltFrame == probe.fn = "buildKmmFrame" /\ probe.done

\* the CRC trailer of frame f read low byte first
CrcTrailer(f) == f[Len(f) - 1] + 256 * f[Len(f)]

\* C12: in every frame built by buildKmmFrame, the big-endian length field at
\* bytes 1..2 equals the total frame length minus 3, which is 4 prefix bytes
\* plus the inner KMM (10 header bytes and the body) plus the 2 CRC bytes
C12_LengthField ==
   BuiltFrame =>
      /\ probe.out[2] * 256 + probe.out[3] = Len(probe.out) - 3
      /\ probe.out[2] * 256 + probe.out[3]
            = 4 + (10 + Len(probe.arg.body)) + 2

\* a built frame long enough for the high byte of the length to be non-zero
C12_Witness ==
   /\ BuiltFrame
   /\ Len(probe.arg.body) = 250
   /\ probe.out[2] = 1
   /\ probe.out[3] = 10

\* C13: the last two bytes of every built frame, read low byte first, are the
\* CRC-16 of exactly the bytes from index 3 up to the CRC (control,
\* destination RSI, inner KMM)
C13_CrcTrailer ==
   BuiltFrame =>
      CrcTrailer(probe.out)
         = calculateCrc16(SubSeq(probe.out, 4, Len(probe.out) - 2))

\* a built ModifyKey frame whose two CRC bytes differ, so that their order
\* and the range of the CRC both matter
C13_Witness ==
   /\ BuiltFrame
   /\ probe.arg.messageId = MSG_MODIFY_KEY_CMD
   /\ Len(probe.arg.body) > 1
   /\ probe.out[Len(probe.out) - 1] # probe.out[Len(probe.out)]
   /\ CrcTrailer(probe.out) # calculateCrc16(probe.out)
   /\ CrcTrailer(probe.out)
         # calculateCrc16(SubSeq(probe.out, 1, Len(probe.out) - 2))

\* C14: buildKmmFrame emits opcode C2, the length, control 00, destination
\* RSI FF FF FF, the message id, the message length 7 + body length (big
\* endian), the message format, destination and source RSI FF FF FF, the
\* body unchanged and the CRC low byte then high byte
C14_FrameLayout ==
   BuiltFrame =>
      LET body == probe.arg.body
          f    == probe.out
          n    == Len(body)
      IN  /\ Len(f) = 19 + n
          /\ SubSeq(f, 1, 17)
                = << 194, ((16 + n) \div 256) % 256, (16 + n) % 256,
                     0, 255, 255, 255,
                     probe.arg.messageId,
                     ((7 + n) \div 256) % 256, (7 + n) % 256,
                     probe.arg.responseKind,
                     255, 255, 255, 255, 255, 255 >>
          /\ SubSeq(f, 18, 17 + n) = body
          /\ f[18 + n] = calculateCrc16(SubSeq(f, 4, 17 + n)) % 256
          /\ f[19 + n] = calculateCrc16(SubSeq(f, 4, 17 + n)) \div 256

\* a built frame with a message id other than ModifyKey, a response kind
\* other than immediate and a non-empty body
C14_Witness ==
   /\ BuiltFrame
   /\ probe.arg.messageId = MSG_ZEROIZE_CMD
   /\ probe.arg.responseKind = 128
   /\ Len(probe.arg.body) = 250
   /\ probe.out[8] = 10
   /\ probe.out[9] = 1
   /\ probe.out[10] = 1

\* C15: calculateCrc16 of the nine ASCII bytes "123456789" is 0x6F91, the
\* value without final complement, and not 0x906E
C15_CrcCheckValue ==
   (probe.fn = "calculateCrc16" /\ probe.done
      /\ probe.arg = << 49, 50, 51, 52, 53, 54, 55, 56, 57 >>)
   => (probe.out = 28561 /\ probe.out # 36974)

\* the check string has been run through calculateCrc16
C15_Witness ==
   /\ probe.fn = "calculateCrc16"
   /\ probe.done
   /\ probe.arg = << 49, 50, 51, 52, 53, 54, 55, 56, 57 >>
   /\ probe.out = 28561

\* what call f has transmitted after its handshake attempts
FrameSent(f) == SubSeq(f.tx, 2 * f.attempt + 1, Len(f.tx))

\* the calls of operation op that have just transmitted their command frame
JustSent(op) == { f \in CallRecords : f.op = op /\ f.pc = "recv" }

\* C16: keyload of the key {keyset 1, SLN 202, key id 202, algorithm 0x84,
\* key 11..30 hex} transmits after the handshake the 65-byte frame
\* C2 00 3E 00 FF FF FF 04 00 35 C0 FF FF FF FF FF FF 00 00 80 00 00 01 84 20
\* 01 00 00 CA 00 CA 11 12 ... 30 followed by the CRC low byte and the CRC
\* high byte: the length field is 62 and the message length 53
C16_AesKeyloadFrame ==
   \A f \in JustSent("keyload") :
      f.keys = << AesKey202 >>
         => LET w == FrameSent(f)
            IN  /\ Len(w) = 65
                /\ SubSeq(w, 1, 31)
                      = << 194, 0, 62, 0, 255, 255, 255, 4, 0, 53, 192,
                           255, 255, 255, 255, 255, 255,
                           0, 0, 128, 0, 0, 1, 132, 32, 1, 0, 0, 202, 0, 202 >>
                /\ SubSeq(w, 32, 63) = [i \in 1..32 |-> 16 + i]
                /\ w[64] = calculateCrc16(SubSeq(w, 4, 63)) % 256
                /\ w[65] = calculateCrc16(SubSeq(w, 4, 63)) \div 256

\* C16 as stated: the same frame with length field 00 38 and message length
\* 00 31
C16_AsStated ==
   \A f \in JustSent("keyload") :
      f.keys = << AesKey202 >>
         => LET w == FrameSent(f)
            IN  /\ Len(w) >= 65
                /\ SubSeq(w, 1, 31)
                      = << 194, 0, 56, 0, 255, 255, 255, 4, 0, 49, 192,
                           255, 255, 255, 255, 255, 255,
                           0, 0, 128, 0, 0, 1, 132, 32, 1, 0, 0, 202, 0, 202 >>
                /\ SubSeq(w, 32, 63) = [i \in 1..32 |-> 16 + i]
                /\ w[Len(w) - 1]
                      = calculateCrc16(SubSeq(w, 4, Len(w) - 2)) % 256
                /\ w[Len(w)]
                      = calculateCrc16(SubSeq(w, 4, Len(w) - 2)) \div 256

\* a keyload of that key has got through the handshake at the second attempt
\* and has sent its frame
C16_Witness ==
   \E f \in JustSent("keyload") :
      /\ f.keys = << AesKey202 >>
      /\ f.attempt = 2
      /\ SubSeq(f.tx, 1, 4)
            = << KEY_SIGNATURE, TWI_READY_REQ, KEY_SIGNATURE, TWI_READY_REQ >>
      /\ Len(f.tx) = 69

\* C17: the frame testInventory transmits has message id 00, message format
\* C0 and the one-byte body 02, and is 20 bytes long: opcode, 2-byte length,
\* 4-byte prefix, 11-byte inner KMM (whose message-length field is 8) and
\* 2-byte CRC
C17_InventoryFrame ==
   \A f \in JustSent("testInventory") :
      LET w == FrameSent(f)
      IN  /\ Len(w) = 20
          /\ Len(w) = 1 + 2 + 4 + 11 + 2
          /\ SubSeq(w, 1, 18)
                = << 194, 0, 17, 0, 255, 255, 255, 0, 0, 8, 192,
                     255, 255, 255, 255, 255, 255, 2 >>
          /\ Len(InnerKmm(w)) = 11

\* C17 as stated: the inventory frame is 17 bytes long with an 8-byte inner
\* KMM
C17_AsStated ==
   \A f \in JustSent("testInventory") :
      LET w == FrameSent(f)
      IN  /\ Len(w) = 17
          /\ Len(InnerKmm(w)) = 8

\* testInventory has sent its frame after one handshake attempt
C17_Witness ==
   \E f \in JustSent("testInventory") :
      /\ f.attempt = 1
      /\ Len(f.tx) = 22
      /\ f.tx[10] = MSG_INVENTORY_CMD
      /\ f.tx[20] = INV_LIST_ACTIVE_KSET_IDS

\* C18: the frame eraseAllKeys transmits carries the message id 0x0A, an
\* empty body and the message length 7
C18_ZeroizeFrame ==
   \A f \in JustSent("eraseAllKeys") :
      LET w == FrameSent(f)
      IN  /\ IsKmmFrame(w)
          /\ InnerKmm(w)[1] = MSG_ZEROIZE_CMD
          /\ InnerKmm(w)[2] * 256 + InnerKmm(w)[3] = 7
          /\ Len(InnerKmm(w)) = 10

\* what eraseAllKeys does transmit: a frame with the ModifyKey message id,
\* the one-byte body 0A and the message length 8
C18_Sent ==
   \E f \in JustSent("eraseAllKeys") :
      SubSeq(FrameSent(f), 1, 18)
         = << 194, 0, 17, 0, 255, 255, 255, MSG_MODIFY_KEY_CMD, 0, 8, 192,
              255, 255, 255, 255, 255, 255, MSG_ZEROIZE_CMD >>

\* the sendByte applications that have put their byte frame on the wire
ByteSent == probe.fn = "sendByte" /\ probe.done

\* the parity bit of a byte frame on the wire (1 = Idle, 0 = Busy): the level
\* of the tenth bit period, the one after the start bit and 8 data bits
ParityBit(wire) == IF wire[19] = kfdTxIdle THEN 1 ELSE 0

\* C19: for every byte, the number of 1 bits of the byte plus the parity bit
\* sendByte puts on the wire is odd
C19_OddParity ==
   ByteSent => (PopCount(probe.arg.byte) + ParityBit(probe.out)) % 2 = 1

\* what sendByte does: byte C0 hex, with two 1 bits, goes out with the parity
\* bit Busy, so that the number of 1s including the parity bit is even
C19_EvenParitySent ==
   /\ ByteSent
   /\ probe.arg.byte = 192
   /\ PopCount(probe.arg.byte) = 2
   /\ ParityBit(probe.out) = 0

\* C20: receiveByte, started before the byte frame or during its start bit
\* and sampling with the transmitter's bit period, recovers from the wire
\* the byte sendByte was given, for every byte and both stop-bit polarities
C20_ByteRoundTrip ==
   (probe.fn = "receiveByte" /\ probe.done) => probe.out = probe.arg.byte

\* a byte that is not its own bit reversal has made the round trip, with
\* Busy stop bits and a receiver that found the line low already
C20_Witness ==
   /\ probe.fn = "receiveByte"
   /\ probe.done
   /\ probe.arg.byte = 127
   /\ probe.arg.useBusyStopBits
   /\ probe.arg.alreadyLow
   /\ probe.out = 127
   /\ reverseBits(127) = 254

\* the dispatcher calls that returned after the peer answered their command
\* with bytes that do not start with the KMM opcode
AnsweredWithOtherOpcode ==
   { f \in CallRecords : /\ f.pc = "returned"
                         /\ f.rcvWire # << >>
                         /\ f.rcvWire[1] # TWI_KMM }

\* C21: no dispatcher operation returns success when the first byte of the
\* peer's response to its command is not the KMM opcode 0xC2
C21_UnexpectedOpcodeFails ==
   \A f \in AnsweredWithOtherOpcode : ~f.ok

\* eraseAllKeys has returned success on a response that starts with 0xC3
C21_SuccessOnC3 ==
   /\ ret.op = "eraseAllKeys"
   /\ ret.pc = "returned"
   /\ ret.rcvWire # << >>
   /\ ret.rcvWire[1] = 195
   /\ ret.ok
   /\ ret.msg = "All keys erased"

\* the declared length of a reply that has its opcode and length bytes
DeclaredLength(w) == w[2] * 256 + w[3]

\* a 0xC2 reply whose declared length is outside 6..512
LengthOutOfRange(w) ==
   /\ Len(w) >= 3
   /\ w[1] = TWI_KMM
   /\ (DeclaredLength(w) < 6 \/ DeclaredLength(w) > 512)

\* a 0xC2 reply that stops before its declared length
CutShort(w) ==
   /\ Len(w) >= 3
   /\ w[1] = TWI_KMM
   /\ Len(w) - 3 < DeclaredLength(w)

\* C23: a 0xC2 reply whose declared length L is outside 6..512, or of which
\* fewer than L bytes arrive, delivers no inner KMM and makes the dispatcher
\* operation fail; when L is out of range receiveKmm makes at most 3 + 20
\* receiveByte calls whatever L is, so no body of L bytes is read
C23_MalformedFrameRejected ==
   \A f \in CallRecords :
      (LengthOutOfRange(f.rcvWire) \/ CutShort(f.rcvWire))
         => /\ ~f.rcvOk
            /\ f.response = << >>
            /\ f.pc = "returned" => ~f.ok
            /\ LengthOutOfRange(f.rcvWire) => f.rcvCalls <= 3 + 20

\* keyload has failed on a reply of declared length 5 that carries 0x07
\* where an accepted frame of that length would be read as a rekey-ack
C23_Witness ==
   /\ ret.op = "keyload"
   /\ ret.pc = "returned"
   /\ ret.rcvWire = << 194, 0, 5, 7, 7, 7, 7, 7 >>
   /\ ~ret.ok
   /\ ret.rcvCalls = 9

\* the four checks of selfTest under the hardware faults f, in its order
DataReadsIdleWhenReleased(f) == ~ReadDataLow(kfdTxIdle, f)

SenseReadsDiscWhenReleased(f) == ~ReadSenseLow(senTxDisc, f)

DataReadsBusyWhenDriven(f) == ReadDataLow(kfdTxBusy, f)

SenseReadsConnWhenDriven(f) == ReadSenseLow(senTxConn, f)

\* C24: selfTest of an initialised line driver returns the code of the first
\* failing check in the order DATA released (1), SENSE released (2), DATA
\* driven (3), SENSE driven (4), and 0 exactly when all four checks pass
C24_SelfTestCode ==
   (halRet.fn = "selfTest" /\ halInit)
      => /\ halRet.code
               = (IF ~DataReadsIdleWhenReleased(halRet.faults) THEN 1
                  ELSE IF ~SenseReadsDiscWhenReleased(halRet.faults) THEN 2
                  ELSE IF ~DataReadsBusyWhenDriven(halRet.faults) THEN 3
                  ELSE IF ~SenseReadsConnWhenDriven(halRet.faults) THEN 4
                  ELSE 0)
         /\ halRet.code = 0
               <=> /\ DataReadsIdleWhenReleased(halRet.faults)
                   /\ SenseReadsDiscWhenReleased(halRet.faults)
                   /\ DataReadsBusyWhenDriven(halRet.faults)
                   /\ SenseReadsConnWhenDriven(halRet.faults)

\* selfTest has returned 2 with SENSE stuck low and DATA stuck high, where
\* the third check would fail as well
C24_Witness ==
   /\ halRet.fn = "selfTest"
   /\ halInit
   /\ halRet.faults = {"sense_stuck_low", "data_stuck_high"}
   /\ ~DataReadsBusyWhenDriven(halRet.faults)
   /\ halRet.code = 2

\* what is left of the transmitted bytes w once the complete 0xC2 frames at
\* its front (opcode, 16-bit length, that many bytes) are taken away
RECURSIVE AfterFrames(_)
AfterFrames(w) ==
   IF Len(w) >= 3 /\ w[1] = TWI_KMM
   THEN IF Len(w) >= 3 + w[2] * 256 + w[3]
        THEN AfterFrames(SubSeq(w, 4 + w[2] * 256 + w[3], Len(w)))
        ELSE w
   ELSE w

\* what call f has transmitted after its key signatures and ready requests
AfterHandshake(f) ==
   SubSeq(f.tx, 2 * Cardinality(SignaturesAt(f.tx)) + 1, Len(f.tx))

\* C25: what one dispatcher operation puts on the wire is, in this order:
\* handshake attempts (key signature, READY_REQ), then, only if a ready
\* response 0xD0/0xD1 was received, 0xC2 frames, then TRANSFER_DONE 0xC1,
\* then at most DISCONNECT 0x92; no 0xC2 frame follows TRANSFER_DONE and
\* DISCONNECT never comes without TRANSFER_DONE before it
C25_WireOrdering ==
   \A f \in CallRecords :
      /\ SubSeq(f.tx, 1, 2 * Cardinality(SignaturesAt(f.tx)))
            = Handshake(Cardinality(SignaturesAt(f.tx)))
      /\ AfterHandshake(f) # << >> => f.ready
      /\ AfterFrames(AfterHandshake(f))
            \in { << >>, << TWI_TRANSFER_DONE >>,
                  << TWI_TRANSFER_DONE, TWI_DISCONNECT >> }

\* a keyloadMultiple call has sent two handshake attempts, two frames,
\* TRANSFER_DONE and DISCONNECT
C25_Witness ==
   /\ ret.op = "keyloadMultiple"
   /\ ret.attempt = 2
   /\ Len(ret.sent) = 2
   /\ AfterHandshake(ret) # AfterFrames(AfterHandshake(ret))
   /\ AfterFrames(AfterHandshake(ret))
         = << TWI_TRANSFER_DONE, TWI_DISCONNECT >>

\* the two modes of the DATA GPIO in which the line is not driven high
DrivenLowOrReleased == {"output_low", "input_pullup"}

\* the modes the DATA GPIO goes through during a waveform
WaveModes(wave) == { wave[i].pin : i \in DOMAIN wave }

BitLevel(b, k) == IF (b \div (2 ^ k)) % 2 = 1 THEN kfdTxIdle ELSE kfdTxBusy

\* w, the wire in half bit periods, carries the frame of byte b: a Busy
\* start bit, the data bits from bit 7 down to bit 0, one parity bit, four
\* stop-bit periods (Busy or Idle by mode), two periods released
ByteFrameOnWire(w, b, useBusyStopBits) ==
   /\ Len(w) = 2 * (14 + 2)
   /\ w[1] = kfdTxBusy /\ w[2] = kfdTxBusy
   /\ \A k \in 0..7 : /\ w[3 + 2 * k] = BitLevel(b, 7 - k)
                      /\ w[4 + 2 * k] = BitLevel(b, 7 - k)
   /\ w[19] = w[20]
   /\ \A h \in 21..28 :
         w[h] = (IF useBusyStopBits THEN kfdTxBusy ELSE kfdTxIdle)
   /\ \A h \in 29..32 : w[h] = kfdTxIdle

\* C27: sendByte and sendBytesFast put on the wire, for every byte, one Busy
\* start bit, the 8 data bits most significant first (1 = Idle), one parity
\* bit, 4 stop-bit periods that are Busy in BusyThenIdle mode and Idle in
\* IdleOnly mode, each one bit period long, and then leave the line released
\* for 2 bit periods before the next byte or the return
C27_ByteFrame ==
   /\ ByteSent
         => ByteFrameOnWire(probe.out, probe.arg.byte,
                            probe.arg.useBusyStopBits)
   /\ (probe.fn = "sendBytesFast" /\ probe.done)
         => /\ \A j \in DOMAIN probe.arg.data :
                  ByteFrameOnWire(SubSeq(probe.out, 32 * (j - 1) + 1, 32 * j),
                                  probe.arg.data[j],
                                  probe.arg.useBusyStopBits)
            /\ Len(probe.out) >= 32 * Len(probe.arg.data)
            /\ \A h \in (32 * Len(probe.arg.data) + 1)..Len(probe.out) :
                  probe.out[h] = kfdTxIdle

\* sendBytesFast has sent C2 00 with Busy stop bits: the data bits of C2 go
\* out as 1,1,0,0,0,0,1,0
C27_Witness ==
   /\ probe.fn = "sendBytesFast"
   /\ probe.done
   /\ probe.arg.data = << 194, 0 >>
   /\ probe.arg.useBusyStopBits
   /\ [k \in 1..8 |-> probe.out[2 * k + 1]]
         = << kfdTxIdle, kfdTxIdle, kfdTxBusy, kfdTxBusy,
              kfdTxBusy, kfdTxBusy, kfdTxIdle, kfdTxBusy >>
   /\ probe.out[33] = kfdTxBusy

\* what a returned call transmitted during teardown
Teardown(f) == AfterFrames(AfterHandshake(f))

\* C28: endSession does not retry: a call that had a session transmits
\* TRANSFER_DONE exactly once, then DISCONNECT at most once and only when
\* the byte received in reply to TRANSFER_DONE was 0xC1, and makes one
\* receive attempt, or two when it sent DISCONNECT, whatever the peer does
C28_TeardownBestEffort ==
   \A f \in CallRecords :
      (f.pc = "returned" /\ f.ready)
         => /\ Teardown(f) \in { << TWI_TRANSFER_DONE >>,
                                 << TWI_TRANSFER_DONE, TWI_DISCONNECT >> }
            /\ Teardown(f) = << TWI_TRANSFER_DONE, TWI_DISCONNECT >>
                  => f.endReply = TWI_TRANSFER_DONE
            /\ f.endCalls
                  = (IF f.endReply = TWI_TRANSFER_DONE THEN 2 ELSE 1)

\* a call has ended its session on a peer that answered TRANSFER_DONE with
\* another byte: one TRANSFER_DONE, no DISCONNECT, one receive attempt
C28_Witness ==
   /\ ret.op = "keyload"
   /\ ret.pc = "returned"
   /\ ret.ready
   /\ ret.endReply = 85
   /\ Teardown(ret) = << TWI_TRANSFER_DONE >>
   /\ ret.endCalls = 1

\* C29: for every accepted 0xC2 frame the inner KMM handed to the dispatcher
\* is exactly what lies between the 4 bytes of control and destination RSI
\* and the 2 CRC bytes, also when the declared length is 6 and nothing lies
\* between them
C29_InnerKmmExposed ==
   \A f \in CallRecords :
      (f.rcvOk /\ IsKmmFrame(f.rcvWire))
         => f.response = InnerKmm(f.rcvWire)

\* a frame of declared length 6 has been accepted and its control byte,
\* destination RSI and CRC bytes handed to the dispatcher as inner KMM
C29_PrefixExposed ==
   \E f \in CallRecords :
      /\ f.rcvOk
      /\ f.rcvWire = << 194, 0, 6, 7, 255, 255, 255, 0, 0 >>
      /\ InnerKmm(f.rcvWire) = << >>
      /\ f.response = << 7, 255, 255, 255, 0, 0 >>

\* does the CRC trailer of the complete 0xC2 frame w match its content
CrcMatches(w) ==
   CrcTrailer(w) = calculateCrc16(SubSeq(w, 4, Len(w) - 2))

\* C30: keyload, keyloadMultiple and eraseAllKeys never return success when
\* the 0xC2 frame they received last carries a CRC trailer that differs from
\* the CRC-16 of its control, destination RSI and inner KMM bytes
C30_CrcAuthoritative ==
   (/\ ret.op \in {"keyload", "keyloadMultiple", "eraseAllKeys"}
    /\ ret.pc = "returned"
    /\ IsKmmFrame(ret.rcvWire)
    /\ ~CrcMatches(ret.rcvWire))
      => ~ret.ok

\* keyload has returned success on a rekey-ack frame whose CRC is wrong
C30_SuccessOnBadCrc ==
   /\ ret.op = "keyload"
   /\ ret.pc = "returned"
   /\ ret.rcvWire = BadCrcFrame(<< 7, 0, 4 >>)
   /\ ~CrcMatches(ret.rcvWire)
   /\ ret.ok
   /\ ret.msg = "Key loaded successfully"

\* C22: every dispatcher operation returns, whatever the peer does: a peer
\* that never answers, a DATA line held Busy, a peer that sends bytes without
\* end; no wait inside the operation lasts for ever
C22_OperationsTerminate == <>(probe.done /\ probe.out.pc = "returned")

\* an operation returned although the peer answered 0xC3 and went on sending:
\* the dump stopped at its 101st byte
C22_Witness ==
   /\ probe.fn = "operation"
   /\ probe.done
   /\ probe.out.rcv = "c3 limit"

\* the operations guarded by _operationInProgress
GuardedOps == { op \in Ops : guardsInProgress(op) }

\* did the returned call f get past its _initialized and
\* _operationInProgress guards
PassedGuard(f) ==
   /\ f.pc = "returned"
   /\ f.op \in GuardedOps
   /\ ~f.entryBusy
   /\ f.msg # "Not initialized"

\* C38: when a call of keyload, keyloadMultiple, eraseKey or eraseAllKeys
\* that passed the in-progress guard has returned, on whatever path,
\* _operationInProgress is false
C38_InProgressCleared == PassedGuard(ret) => ~opInProgress

\* eraseAllKeys returned after a handshake that failed, keyload after a
\* timeout of receiveKmm
C38_Witness ==
   /\ PassedGuard(ret)
   /\ \/ ret.op = "eraseAllKeys" /\ ret.msg = "Failed to connect to radio"
      \/ ret.op = "keyload"
            /\ ret.msg = "No response from radio after keyload"
   /\ ~opInProgress

\* the step is a guarded call that returns "Operation in progress"
RejectedStep ==
   /\ ret' # ret
   /\ ret'.pc = "returned"
   /\ ret'.op \in GuardedOps
   /\ ret'.msg = "Operation in progress"

\* C39: a call of keyload, keyloadMultiple, eraseKey or eraseAllKeys that is
\* rejected because an operation is in progress leaves _operationInProgress
\* and _abortRequested as they were and calls nothing of the line driver
C39_RejectedCallChangesNothing ==
   [][RejectedStep =>
         /\ opInProgress' = opInProgress /\ opInProgress
         /\ abortReq' = abortReq
         /\ dataPin' = dataPin /\ sensePin' = sensePin
         /\ stack' = stack
         /\ ret'.tx = << >> /\ ret'.rx = 0]_vars

\* a call was rejected while an abort request was pending for the operation
\* in progress
C39_Witness ==
   /\ ret.pc = "returned"
   /\ ret.op = "keyload"
   /\ ret.msg = "Operation in progress"
   /\ abortReq /\ opInProgress
   /\ stack # << >>
   /\ Top.op = "keyloadMultiple"

\* did the call f emit a key signature
EmittedSignature(f) == \E k \in DOMAIN f.tx : f.tx[k] = KEY_SIGNATURE

\* C33: SENSE is asserted during every key signature that a dispatcher
\* operation emits, whatever line-driver calls were made on the initialized
\* driver before, a failed selfTest and reset() included
C33_SenseAssertedForSignature ==
   \A f \in CallRecords : EmittedSignature(f) => sensePin = senTxConn

\* keyload emitted its key signature with SENSE de-asserted
C33_SignatureWithoutSense ==
   /\ ret.pc = "returned"
   /\ ret.op = "keyload"
   /\ EmittedSignature(ret)
   /\ halInit
   /\ sensePin = senTxDisc

\* the body of the ModifyKey command inside the frame w
ModifyKeyBody(w) == SubSeq(w, 18, Len(w) - 2)

\* C34: the Modify-Key body of a single key is 00, 00, 80, 00 00, keyset id
\* (low 8 bits), algorithm id, key length, key count 01, key format (20 hex
\* for an erase, else 00), SLN big-endian, key id big-endian, key material;
\* eraseKey(keysetId, sln) transmits it with key format 20 hex, key length 0
\* and no key material
C34_ModifyKeyBody ==
   \A f \in JustSent("keyload") \cup JustSent("eraseKey") :
      LET key == f.keys[1]
          body == ModifyKeyBody(FrameSent(f))
      IN  /\ Len(body) = 14 + Len(key.key)
          /\ SubSeq(body, 1, 5) = << 0, 0, 128, 0, 0 >>
          /\ body[6] = key.keysetId % 256
          /\ body[7] = key.algorithmId
          /\ body[8] = Len(key.key)
          /\ body[9] = 1
          /\ body[10] = (IF key.erase THEN 32 ELSE 0)
          /\ body[11] * 256 + body[12] = key.sln
          /\ body[13] * 256 + body[14] = key.keyId
          /\ SubSeq(body, 15, Len(body)) = key.key
          /\ f.op = "eraseKey"
                => /\ body[10] = 32
                   /\ body[8] = 0
                   /\ Len(body) = 14

\* eraseKey(258, 61441) has sent its frame: keyset id byte 02, SLN F0 01
C34_Witness ==
   \E f \in JustSent("eraseKey") :
      /\ f.keys[1].keysetId = 258
      /\ ModifyKeyBody(FrameSent(f))
            = << 0, 0, 128, 0, 0, 2, 132, 0, 1, 32, 240, 1, 0, 0 >>

\* C35: after any sequence of init, setTxSpeed and setRxSpeed calls and of
\* settings loaded from storage, the tx and the rx kilobaud in effect are
\* within 1..9 and each bit period is floor(1000 / kilobaud) microseconds
C35_SpeedsInRange ==
   probe.fn = "speed"
      => /\ probe.out.tx.kilobaud \in 1..9
         /\ probe.out.rx.kilobaud \in 1..9
         /\ probe.out.tx.bitPeriod = 1000 \div probe.out.tx.kilobaud
         /\ probe.out.rx.bitPeriod = 1000 \div probe.out.rx.kilobaud

\* init has put the stored speed 200 into effect: a bit period of 5 us
C35_SpeedOutOfRange ==
   /\ probe.fn = "speed"
   /\ probe.out.last = "init"
   /\ probe.out.settings.tx = 200
   /\ probe.out.tx = [kilobaud |-> 200, bitPeriod |-> 5]

\* the step is a call of login: the clock stands and it is no logout
LoginAttempted ==
   /\ probe.fn = "login"
   /\ probe'.out.t = probe.out.t
   /\ ~(probe'.arg = probe.arg /\ probe.out.role # "ROLE_NONE"
          /\ probe'.out.role = "ROLE_NONE")

C40_ActiveIndexValid ==
   probe.fn = "containers"
      => \/ probe.out.activeIndex = -1
         \/ /\ probe.out.activeIndex >= 0
            /\ probe.out.activeIndex < Len(probe.out.containers)

\* load has put a list of one container in the place of a list of two whose
\* second container was the active one
C40_StaleActiveIndex ==
   /\ probe.fn = "containers"
   /\ probe.out.last = "load"
   /\ probe.out.ok
   /\ Len(probe.out.containers) = 1
   /\ probe.out.activeIndex = 1

\* C31: in no Line Driver function do interrupts stay disabled for more
\* than 15 bit periods
C31_WindowAtMost15BitPeriods ==
   (probe.fn = "irq" /\ ~probe.out.irqOn)
      => probe.out.window <= 15 * IrqBitPeriod(probe.arg)

\* the end of the key signature at the default speed: interrupts have been
\* disabled for 105 ms, 420 bit periods of 250 us
C31_SignatureWindow ==
   /\ probe.fn = "irq"
   /\ probe.arg.fn = "sendKeySignatureAndReadyReq"
   /\ probe.arg.kilobaud = TxKilobaud
   /\ ~probe.out.irqOn
   /\ probe.out.part = "signature"
   /\ probe.out.window = 420 * IrqBitPeriod(probe.arg)

\* C32: interrupts are disabled during every bit of a transmitted byte
\* frame, start bit to last stop bit, are enabled during the inter-byte
\* gap, and are enabled whenever a Line Driver function returns, the
\* return on a receive timeout included
C32_FrameMaskedReturnUnmasked ==
   probe.fn = "irq"
      => /\ probe.out.part \in {"frame", "stop"} => ~probe.out.irqOn
         /\ probe.out.part = "gap" => probe.out.irqOn
         /\ probe.done => probe.out.irqOn

\* receiveByte has returned on the timeout of its wait for the start bit
C32_Witness ==
   /\ probe.fn = "irq"
   /\ probe.arg.fn = "receiveByte"
   /\ probe.arg.init
   /\ probe.arg.path = "timeout"
   /\ probe.done

\* the 'current' values of the progress reports of call f
ProgressCurrents(f) == [j \in 1..Len(f.progress) |-> f.progress[j][1]]

TypeOK ==
   /\ kfdInit \in BOOLEAN /\ halInit \in BOOLEAN
   /\ opInProgress \in BOOLEAN /\ abortReq \in BOOLEAN
   /\ useBusyStop \in BOOLEAN
   /\ dataPin \in {"unconfigured", kfdTxIdle, kfdTxBusy}
   /\ sensePin \in {"unconfigured", senTxConn, senTxDisc}
   /\ Len(stack) <= 2
   /\ \A k \in DOMAIN stack : stack[k].op \in Ops

====
